---- MODULE Spec2Model ----
(***************************************************************************)
(* Review enrichment and retrieval pipeline: the record store              *)
(* (storage/db.py), the enrichment batch processor (ingestion/enricher.py) *)
(* and the structured-scrape normalizer (ingestion/parser.py).             *)
(***************************************************************************)
EXTENDS Integers, Sequences, FiniteSets, TLC

\* ------------------------------------------------------------------ bounds
\* review_ids are 1..MaxReviews; MaxReviews + 1 is an id no review ever has
MaxReviews == 3
\* enrichment runs per behaviour
MaxRuns == 2
\* largest batch_size a run is started with
MaxBatch == 2
\* most review records in a structured-scrape file
MaxFileLen == 2
\* most rows of a reviews table a query is run on
MaxRows == 3

\* Python's None / SQL NULL for numeric and id columns
Null == 0
\* Python's None / SQL NULL for text columns
NullText == "<null>"
\* default candidate limit of enrich_all_reviews (limit or 10000)
DefaultLimit == 10000

Locations == {"JFK", "LAX"}
\* the connections writing concurrently, and the review_ids they write
Writers == {1, 2}
UpsertIds == {1, 2}
Tables == {"enrichments", "embeddings"}
NoTx == [table |-> "none"]
ReviewIds == 1..MaxReviews
\* the time windows of the insights cache and its (location_id, window) keys
Windows == {"early", "late"}
CacheKeys == Locations \X Windows
\* an id the annotation service can return although no review carries it
ForeignId == MaxReviews + 1

\* ------------------------------------------------------------------ state
VARIABLES
    reviews,        \* table reviews: sequence of rows in rowid order
    enrichments,    \* table enrichments: set of rows
    pc,             \* position of the enrichment process
    cands,          \* enrich_all_reviews: the list `reviews` fetched at line 24
    batch_size,     \* ReviewEnricher.batch_size
    i,              \* loop variable of range(0, len(reviews), batch_size)
    count,          \* enrich_all_reviews: count
    resp,           \* enrichments returned by enrich_batch for the current batch
    k,              \* number of entries of resp already handed to insert_enrichment
    runs,           \* number of runs started so far
    calls,          \* history: calls of bedrock.enrich_reviews_batch in this run
    outcome,        \* history: per batch of this run, how its processing ended
    kind,           \* history: per batch of this run, what the service did
    written,        \* history: <<batch number, review_id>> rows written in this run
    sent,           \* history: review_ids sent to the service in this run
    hadEnrichment,  \* history: review_ids that had an enrichment when the run started
    embeddings,     \* table embeddings: set of rows
    tx,             \* per writer connection: the statement executed and not yet committed
    lastCommit,     \* history: per table and review_id, the last committed upsert
    lastOp,         \* history: the last store operation called and its arguments
    result,         \* what the last read operation returned
    insights_cache, \* table insights_cache: set of rows
    computed        \* history: per cache key, what the last compute returned

storeVars == <<reviews, enrichments>>
runVars == <<pc, cands, batch_size, i, count, resp, k, runs>>
histVars == <<calls, outcome, kind, written, sent, hadEnrichment>>
auxVars == <<embeddings, tx, lastCommit, lastOp, result, insights_cache, computed>>
vars == <<reviews, enrichments, pc, cands, batch_size, i, count, resp, k, runs,
          calls, outcome, kind, written, sent, hadEnrichment,
          embeddings, tx, lastCommit, lastOp, result, insights_cache, computed>>

\* ------------------------------------------------------------- helpers
Min(a, b) == IF a < b THEN a ELSE b

\* dict.get(key, default)
Get(d, key, default) == IF key \in DOMAIN d THEN d[key] ELSE default

\* json.dumps of a list: the stored column is the text encoding, not the list
JsonDumps(x) == <<"json", x>>

\* SQL NULL in a column that holds json.dumps text
NullJson == <<"null">>

\* Python's None as the value a lookup returns
None == [none |-> TRUE]

\* ---------------------------------------------------------- record store
\* the row insert_review binds from a review dict (review.get(...))
ReviewRow(review) ==
    [location_id |-> Get(review, "location_id", NullText),
     review_id   |-> Get(review, "review_id", Null),
     rating      |-> Get(review, "rating", Null),
     review_text |-> Get(review, "review_text", NullText),
     review_date |-> Get(review, "review_date", Null)]

\* the constraints without UNIQUE on review_id
ConflictsNotUnique(rows, row) ==
    \/ row.review_id = Null
    \/ row.location_id = NullText
    \/ row.rating = Null

\* a row the table's constraints reject: review_id UNIQUE NOT NULL,
\* location_id NOT NULL, rating NOT NULL
Conflicts(rows, row) ==
    \/ row.review_id = Null
    \/ row.location_id = NullText
    \/ row.rating = Null
    \/ \E n \in 1..Len(rows) : rows[n].review_id = row.review_id

\* INSERT OR REPLACE in place of INSERT OR IGNORE
insert_review_replacing(rows, review) ==
    LET row == ReviewRow(review)
    IN IF row.review_id = Null \/ row.location_id = NullText \/ row.rating = Null
       THEN rows
       ELSE IF \E n \in 1..Len(rows) : rows[n].review_id = row.review_id
            THEN [n \in 1..Len(rows) |->
                    IF rows[n].review_id = row.review_id THEN row ELSE rows[n]]
            ELSE Append(rows, row)

\* INSERT OR IGNORE INTO reviews: a conflicting row is dropped silently
insert_review(rows, review) ==
    LET row == ReviewRow(review)
    IN IF Conflicts(rows, row) THEN rows ELSE Append(rows, row)

\* the row insert_enrichment binds from an enrichment dict
EnrichmentRow(enrichment) ==
    [review_id       |-> Get(enrichment, "review_id", Null),
     topics          |-> JsonDumps(Get(enrichment, "topics", <<>>)),
     sentiment       |-> Get(enrichment, "sentiment", Null),
     sentiment_score |-> Get(enrichment, "sentiment_score", Null),
     entities        |-> JsonDumps(Get(enrichment, "entities", <<>>))]

\* review_id is NOT NULL: OR REPLACE falls back to ABORT and execute() raises
insert_enrichment_raises(enrichment) ==
    EnrichmentRow(enrichment).review_id = Null

\* an upsert that keeps the stored value of a column the dict does not give
\* (ON CONFLICT DO UPDATE SET col = COALESCE(excluded.col, col))
insert_enrichment_coalesce(tbl, enrichment) ==
    LET row == EnrichmentRow(enrichment)
        old == {r \in tbl : r.review_id = row.review_id}
        Pick(key) == IF key \in DOMAIN enrichment \/ old = {}
                     THEN row[key] ELSE (CHOOSE r \in old : TRUE)[key]
    IN (tbl \ old) \cup
       {[review_id |-> row.review_id, topics |-> Pick("topics"),
         sentiment |-> Pick("sentiment"),
         sentiment_score |-> Pick("sentiment_score"),
         entities |-> Pick("entities")]}

\* a plain INSERT into a table without the UNIQUE constraint
insert_enrichment_appending(tbl, enrichment) ==
    tbl \cup {EnrichmentRow(enrichment)}

\* INSERT OR REPLACE INTO enrichments: the rows in conflict on the UNIQUE
\* review_id are deleted, then the new row is inserted
insert_enrichment(tbl, enrichment) ==
    LET row == EnrichmentRow(enrichment)
    IN {r \in tbl : r.review_id # row.review_id} \cup {row}

\* ORDER BY review_date DESC over the rows in rowid order (NULL sorts last)
InsertSorted(s, r) ==
    LET n == Cardinality({j \in 1..Len(s) : s[j].review_date >= r.review_date})
    IN SubSeq(s, 1, n) \o <<r>> \o SubSeq(s, n + 1, Len(s))

RECURSIVE OrderByDateDesc(_)
OrderByDateDesc(s) ==
    IF s = <<>> THEN <<>>
    ELSE InsertSorted(OrderByDateDesc(SubSeq(s, 1, Len(s) - 1)), s[Len(s)])

\* the WHERE clause get_reviews builds: a filter is added only when its
\* argument is truthy (not None, not "", not 0)
Matches(row, location_id, min_rating, max_rating) ==
    /\ (location_id # NullText /\ location_id # "") => row.location_id = location_id
    /\ (min_rating # Null) => row.rating >= min_rating
    /\ (max_rating # Null) => row.rating <= max_rating

\* LIMIT n: a negative n means no limit
Limit(s, limit) ==
    IF limit < 0 THEN s ELSE SubSeq(s, 1, Min(limit, Len(s)))

\* LIMIT applied to the matching rows before they are ordered
get_reviews_limit_first(rows, location_id, min_rating, max_rating, limit) ==
    LET Keep(row) == Matches(row, location_id, min_rating, max_rating)
    IN OrderByDateDesc(Limit(SelectSeq(rows, Keep), limit))

get_reviews(rows, location_id, min_rating, max_rating, limit) ==
    LET Keep(row) == Matches(row, location_id, min_rating, max_rating)
    IN Limit(OrderByDateDesc(SelectSeq(rows, Keep)), limit)

\* ------------------------------------------------------ annotation service
\* what BedrockClient.enrich_reviews_batch returns for one review
Annotation(rid, tag) ==
    [review_id |-> rid, topics |-> <<tag>>, sentiment |-> tag,
     sentiment_score |-> tag, entities |-> <<tag>>]

\* the response answering a batch exactly: one annotation per review, in order
ExactResponse(batch, tag) ==
    [n \in 1..Len(batch) |-> Annotation(batch[n].review_id, tag)]

BatchIds(batch) == {batch[n].review_id : n \in 1..Len(batch)}

\* the responses the service can give when it does not raise:
\*   exact - answers the batch; short - the last review is missing;
\*   extra - one more annotation, for a review_id that is not in the batch;
\*   noid  - the last annotation carries no review_id
ResponseKinds == {"exact", "short", "extra", "noid"}

Responses(batch, which, tag) ==
    LET exact == ExactResponse(batch, tag)
        n == Len(batch)
    IN CASE which = "exact" -> {exact}
         [] which = "short" -> {SubSeq(exact, 1, n - 1)}
         [] which = "extra" ->
              {Append(exact, Annotation(x, tag)) :
                 x \in {ForeignId, (batch[1].review_id % MaxReviews) + 1} \ BatchIds(batch)}
         [] which = "noid" ->
              {Append(SubSeq(exact, 1, n - 1),
                      [topics |-> <<tag>>, sentiment |-> tag,
                       sentiment_score |-> tag, entities |-> <<tag>>])}

\* ------------------------------------------------------ enrichment processor
\* a slice that runs one review into the next batch
SliceOverlapping(s, from, size) == SubSeq(s, from + 1, Min(from + size + 1, Len(s)))

\* the slice reviews[i:i + batch_size]
Slice(s, from, size) == SubSeq(s, from + 1, Min(from + size, Len(s)))

\* batch_num = (i // batch_size) + 1
BatchNum(from, size) == (from \div size) + 1

\* total_batches = (total + batch_size - 1) // batch_size
TotalBatches(total, size) == (total + size - 1) \div size

\* the reviews a catalogue of scraped files can hold, one per review_id
CatalogReview(rid) ==
    [review_id |-> rid,
     location_id |-> IF rid % 3 = 0 THEN "LAX" ELSE "JFK",
     rating |-> (rid % 5) + 1,
     review_text |-> IF rid % 4 = 0 THEN "" ELSE "text",
     review_date |-> ((rid * 2) % 3) + 1]

InitStore ==
    /\ reviews = <<>>
    /\ enrichments = {}
    /\ embeddings = {}

InitRun ==
    /\ pc = "idle"
    /\ cands = <<>>
    /\ batch_size = 1
    /\ i = 0
    /\ count = 0
    /\ resp = <<>>
    /\ k = 0
    /\ runs = 0
    /\ calls = 0
    /\ outcome = <<>>
    /\ kind = <<>>
    /\ written = {}
    /\ sent = {}
    /\ hadEnrichment = {}

InitAux ==
    /\ tx = [w \in Writers |-> NoTx]
    /\ lastCommit = [t \in Tables |-> [rid \in UpsertIds |-> NoTx]]
    /\ result = <<>>
    /\ insights_cache = {}
    /\ computed = [key \in CacheKeys |-> None]

Init ==
    /\ InitStore
    /\ InitRun
    /\ InitAux
    /\ lastOp = [op |-> "none"]

Resting == pc \in {"idle", "done", "crashed"}

\* Database.insert_review, called between runs of the enrichment processor;
\* the scraped files bring the catalogue's reviews in review_id order
InsertReview(rid) ==
    /\ Resting
    /\ rid = Len(reviews) + 1
    /\ reviews' = insert_review(reviews, CatalogReview(rid))
    /\ reviews' # reviews
    /\ UNCHANGED <<enrichments, runVars, histVars>>
    /\ UNCHANGED auxVars

\* ReviewEnricher(batch_size).enrich_all_reviews(location_id, limit), lines 24-28
StartRun(location_id, limit, size) ==
    /\ Resting
    /\ runs < MaxRuns
    /\ runs' = runs + 1
    /\ batch_size' = size
    /\ cands' = get_reviews(reviews, location_id, Null, Null,
                            IF limit # Null THEN limit ELSE DefaultLimit)
    /\ count' = 0
    /\ i' = 0
    /\ resp' = <<>>
    /\ k' = 0
    /\ pc' = "loop"
    /\ calls' = 0
    /\ outcome' = <<>>
    /\ kind' = <<>>
    /\ written' = {}
    /\ sent' = {}
    /\ hadEnrichment' = {r.review_id : r \in enrichments}
    /\ UNCHANGED storeVars
    /\ UNCHANGED auxVars

\* enrich_batch raises and the exception ends the loop (try around the loop)
CallRaisesAborts ==
    /\ pc = "loop"
    /\ i < Len(cands)
    /\ calls' = calls + 1
    /\ sent' = sent \cup BatchIds(Slice(cands, i, batch_size))
    /\ kind' = Append(kind, "raise")
    /\ outcome' = Append(outcome, "failed")
    /\ i' = Len(cands)
    /\ UNCHANGED <<storeVars, pc, cands, batch_size, count, resp, k, runs,
                   written, hadEnrichment>>
    /\ UNCHANGED auxVars

\* enrich_batch raises and the same batch is tried again
CallRaisesRetries ==
    /\ pc = "loop"
    /\ i < Len(cands)
    /\ calls' = calls + 1
    /\ sent' = sent \cup BatchIds(Slice(cands, i, batch_size))
    /\ UNCHANGED <<storeVars, pc, cands, batch_size, i, count, resp, k, runs,
                   outcome, kind, written, hadEnrichment>>
    /\ UNCHANGED auxVars

\* line 38, enrich_batch raises: the except clause logs, the loop goes on
CallRaises ==
    /\ pc = "loop"
    /\ i < Len(cands)
    /\ calls' = calls + 1
    /\ sent' = sent \cup BatchIds(Slice(cands, i, batch_size))
    /\ kind' = Append(kind, "raise")
    /\ outcome' = Append(outcome, "failed")
    /\ i' = i + batch_size
    /\ UNCHANGED <<storeVars, pc, cands, batch_size, count, resp, k, runs,
                   written, hadEnrichment>>
    /\ UNCHANGED auxVars

\* line 38, enrich_batch returns a list of enrichments
CallReturns(which) ==
    /\ pc = "loop"
    /\ i < Len(cands)
    /\ calls' = calls + 1
    /\ sent' = sent \cup BatchIds(Slice(cands, i, batch_size))
    /\ kind' = Append(kind, which)
    /\ resp' \in Responses(Slice(cands, i, batch_size), which, runs)
    /\ k' = 0
    /\ pc' = "persist"
    /\ UNCHANGED <<storeVars, cands, batch_size, i, count, runs,
                   outcome, written, hadEnrichment>>
    /\ UNCHANGED auxVars

\* lines 39-41, one iteration: insert_enrichment commits one row
PersistOne ==
    /\ pc = "persist"
    /\ k < Len(resp)
    /\ ~insert_enrichment_raises(resp[k + 1])
    /\ enrichments' = insert_enrichment(enrichments, resp[k + 1])
    /\ count' = count + 1
    /\ k' = k + 1
    /\ written' = written \cup
                    {<<BatchNum(i, batch_size), EnrichmentRow(resp[k + 1]).review_id>>}
    /\ UNCHANGED <<reviews, pc, cands, batch_size, i, resp, runs,
                   calls, outcome, kind, sent, hadEnrichment>>
    /\ UNCHANGED auxVars

\* line 40 raises: the rows already committed stay, the except clause logs
PersistRaises ==
    /\ pc = "persist"
    /\ k < Len(resp)
    /\ insert_enrichment_raises(resp[k + 1])
    /\ outcome' = Append(outcome, "failed")
    /\ i' = i + batch_size
    /\ pc' = "loop"
    /\ UNCHANGED <<storeVars, cands, batch_size, count, resp, k, runs,
                   calls, kind, written, sent, hadEnrichment>>
    /\ UNCHANGED auxVars

\* line 42: every returned enrichment is saved, next batch
BatchDone ==
    /\ pc = "persist"
    /\ k = Len(resp)
    /\ outcome' = Append(outcome, "saved")
    /\ i' = i + batch_size
    /\ pc' = "loop"
    /\ UNCHANGED <<storeVars, cands, batch_size, count, resp, k, runs,
                   calls, kind, written, sent, hadEnrichment>>
    /\ UNCHANGED auxVars

\* line 46: return count
Return ==
    /\ pc = "loop"
    /\ i >= Len(cands)
    /\ pc' = "done"
    /\ UNCHANGED <<storeVars, cands, batch_size, i, count, resp, k, runs, histVars>>
    /\ UNCHANGED auxVars

\* the process dies between two inserts of a batch
Crash ==
    /\ pc = "persist"
    /\ outcome' = Append(outcome, "crashed")
    /\ pc' = "crashed"
    /\ UNCHANGED <<storeVars, cands, batch_size, i, count, resp, k, runs,
                   calls, kind, written, sent, hadEnrichment>>
    /\ UNCHANGED auxVars

Next ==
    \/ \E rid \in ReviewIds : InsertReview(rid)
    \/ \E location_id \in {NullText, "JFK"}, limit \in {Null, MaxBatch},
          size \in {1, MaxBatch} : StartRun(location_id, limit, size)
    \/ CallRaises
    \/ \E which \in ResponseKinds : CallReturns(which)
    \/ PersistOne
    \/ PersistRaises
    \/ BatchDone
    \/ Return
    \/ Crash

Spec == Init /\ [][Next]_vars

\* ------------------------------------------------------------------ claims
Running == pc \in {"loop", "persist"}

\* the b-th batch of the current run
BatchOf(b) == Slice(cands, (b - 1) * batch_size, batch_size)

NBatches == TotalBatches(Len(cands), batch_size)

\* review_ids whose enrichment row was written by the current run
WrittenIds == {w[2] : w \in written}
WrittenBy(b) == {w[2] : w \in {x \in written : x[1] = b}}

\* review_ids whose stored enrichment carries the current run's annotation
StoredFromThisRun == {r.review_id : r \in {x \in enrichments : x.sentiment = runs}}

IdsOfBatches(bs) == UNION {BatchIds(BatchOf(b)) : b \in bs}

\* C1: batch-failure isolation. When a run has returned, every batch was
\* processed (also those after a failed one); a batch whose call raised wrote
\* no row; and in a run where every call either raised or answered its batch,
\* the reviews that gained an enrichment in the run, in the history and in the
\* store, are exactly the reviews of the batches whose call did not raise.
C1_BatchFailureIsolation ==
    pc = "done" =>
        /\ Len(kind) = NBatches
        /\ Len(outcome) = NBatches
        /\ \A b \in 1..Len(kind) : kind[b] = "raise" => WrittenBy(b) = {}
        /\ (\A b \in 1..Len(kind) : kind[b] \in {"raise", "exact"}) =>
              LET ok == {b \in 1..Len(kind) : kind[b] = "exact"}
              IN /\ WrittenIds = IdsOfBatches(ok)
                 /\ StoredFromThisRun = IdsOfBatches(ok)
                 /\ \A b \in ok : WrittenBy(b) = BatchIds(BatchOf(b))

\* three batches, the second one's call raised, the first and third saved
C1_Witness ==
    /\ pc = "done"
    /\ kind = <<"exact", "raise", "exact">>
    /\ WrittenIds = BatchIds(BatchOf(1)) \cup BatchIds(BatchOf(3))
    /\ BatchIds(BatchOf(2)) # {}

\* C2: no review that had a stored enrichment when the run started is in a
\* batch sent to the annotation service.
C2_OnlyUnenrichedSent == sent \cap hadEnrichment = {}

\* C3: a batch whose processing did not complete (an insert raised, or the
\* process died) has written no row.
C3_FailedBatchWritesNothing ==
    \A b \in 1..Len(outcome) :
        (outcome[b] \in {"failed", "crashed"}) => WrittenBy(b) = {}

\* C4: while a response whose review_id set differs from the batch's is being
\* handled, and after it, no row of that batch's processing is in the store.
C4_MismatchWritesNothing ==
    \A b \in 1..Len(kind) :
        (kind[b] \in {"short", "extra", "noid"}) => WrittenBy(b) = {}

\* a measure of the work a run has left
Measure ==
    LET left == TotalBatches(Len(cands) - Min(i, Len(cands)), batch_size)
        width == batch_size + 4
    IN CASE pc = "loop" -> left * width + width - 1
         [] pc = "persist" -> left * width + (Len(resp) - k) + 1
         [] OTHER -> 0

\* C5: the annotation call is made once per loop iteration: calls counts the
\* batches started, never exceeds ceil(T/B), equals it when the run returns
\* (0 for T = 0), whatever the earlier batches did; every step of a run
\* decreases the work left, so the run ends.
C5_CallCount ==
    /\ calls = Len(kind)
    /\ calls <= NBatches
    /\ pc = "loop" => calls = Min(i \div batch_size, NBatches)
    /\ pc = "persist" => calls = (i \div batch_size) + 1
    /\ pc = "done" => calls = (Len(cands) + batch_size - 1) \div batch_size
    /\ pc = "done" /\ cands = <<>> => calls = 0
    /\ Measure >= 0

C5_OncePerBatch ==
    /\ []C5_CallCount
    /\ [][Running => Measure' < Measure]_vars

\* a returned run over 3 candidates in batches of 2 whose first call raised
C5_Witness ==
    /\ pc = "done"
    /\ Len(cands) = 3
    /\ batch_size = 2
    /\ calls = 2
    /\ kind[1] = "raise"

\* ================================================================ ingestion
\* dates are day numbers (date.toordinal()); datetime.min is day 1
MinDay == 1

\* a relative-date text is a sequence of tokens: a run of digits (its value
\* in n), a unit word (in u), "s", "ago", "a", a run of whitespace, "today",
\* "yesterday", "just now", any other word; caps marks upper-case letters
Tok(t) == [t |-> t, n |-> 0, u |-> "", caps |-> FALSE]
Num(n) == [t |-> "num", n |-> n, u |-> "", caps |-> FALSE]
Unit(u) == [t |-> "unit", n |-> 0, u |-> u, caps |-> FALSE]
Ws == Tok("ws")
Units == {"day", "week", "month", "year"}

\* str.lower()
Lower(text) == [n \in 1..Len(text) |-> [text[n] EXCEPT !.caps = FALSE]]

Is(text, n, t) == n <= Len(text) /\ text[n].t = t /\ ~text[n].caps

\* `word in relative_date`
Contains(text, t) == \E n \in 1..Len(text) : Is(text, n, t)

RECURSIVE SkipWs(_, _)
\* \s* from position n: the position after the whitespace
SkipWs(text, n) == IF Is(text, n, "ws") THEN SkipWs(text, n + 1) ELSE n

\* (\d+)\s*(day|week|month|year)s?\s*ago matched from position n
NumberedAt(text, n) ==
    LET unit == SkipWs(text, n + 1)
        rest == IF Is(text, unit + 1, "s") THEN unit + 2 ELSE unit + 1
    IN /\ Is(text, n, "num")
       /\ Is(text, unit, "unit")
       /\ Is(text, SkipWs(text, rest), "ago")

\* a\s+(day|week|month|year)\s*ago matched from position n
SingularAt(text, n) ==
    /\ Is(text, n, "a")
    /\ Is(text, n + 1, "ws")
    /\ Is(text, SkipWs(text, n + 1), "unit")
    /\ Is(text, SkipWs(text, SkipWs(text, n + 1) + 1), "ago")

\* re.search: the leftmost position a pattern matches from, 0 when none does
Leftmost(hits) ==
    IF hits = {} THEN 0 ELSE CHOOSE n \in hits : \A m \in hits : n <= m

SearchNumbered(text) == Leftmost({n \in 1..Len(text) : NumberedAt(text, n)})

SearchSingular(text) == Leftmost({n \in 1..Len(text) : SingularAt(text, n)})

\* the days of a unit: timedelta(days=num), (weeks=num), (days=num * 30),
\* (days=num * 365)
DaysOf(unit) ==
    CASE unit = "day" -> 1
      [] unit = "week" -> 7
      [] unit = "month" -> 30
      [] unit = "year" -> 365

\* the days parse_relative_date subtracts from scrape_date
DaysAgo(relative_date) ==
    LET text == Lower(relative_date)
        numbered == SearchNumbered(text)
        singular == SearchSingular(text)
    IN IF Contains(text, "today") \/ Contains(text, "just now") THEN 0
       ELSE IF Contains(text, "yesterday") THEN 1
       ELSE IF numbered # 0
            THEN text[numbered].n * DaysOf(text[SkipWs(text, numbered + 1)].u)
       ELSE IF singular # 0
            THEN DaysOf(text[SkipWs(text, singular + 1)].u)
       ELSE 0

\* scrape_date - timedelta(...) raises OverflowError below datetime.min
parse_relative_date_raises(relative_date, scrape_date) ==
    scrape_date - DaysAgo(relative_date) < MinDay

\* parse_relative_date(relative_date, scrape_date): the anchor minus the offset
parse_relative_date(relative_date, scrape_date) ==
    scrape_date - DaysAgo(relative_date)

\* the token sequences of the relative_date texts of the scraped files
Lex(string) ==
    CASE string = "today" -> <<Tok("today")>>
      [] string = "yesterday" -> <<Tok("yesterday")>>
      [] string = "3 days ago" -> <<Num(3), Ws, Unit("day"), Tok("s"), Ws, Tok("ago")>>
      [] string = "a week ago" -> <<Tok("a"), Ws, Unit("week"), Ws, Tok("ago")>>
      [] OTHER -> <<>>

\* a scraped review whose relative_date is null: None.lower() raises
RelativeDateRaises(raw) ==
    "relative_date" \in DOMAIN raw /\ raw["relative_date"] = NullText

\* the review objects a structured-scrape file can hold: two texts of
\* review 1, review 2, a review without review_id, one without rating, one
\* whose relative_date is null
RawReviews ==
    {[review_id |-> 1, rating |-> 4, relative_date |-> "today"],
     [review_id |-> 1, rating |-> 2, relative_date |-> "3 days ago"],
     [review_id |-> 2, rating |-> 4, relative_date |-> "a week ago"],
     [rating |-> 4, relative_date |-> "today"],
     [review_id |-> 2, relative_date |-> "yesterday"],
     [review_id |-> 2, rating |-> 5, relative_date |-> NullText]}

\* the day "now" is when a file is parsed
Nows == {21, 22}

RECURSIVE SeqsUpTo(_, _)
SeqsUpTo(S, n) ==
    IF n = 0 THEN {<<>>}
    ELSE LET shorter == SeqsUpTo(S, n - 1)
         IN shorter \cup {Append(q, x) : q \in shorter, x \in S}

\* a file <location>_<dd>_<mm>_<yyyy>.json (date |-> Null: no date in the name)
Files ==
    {[location |-> "JFK", date |-> d, reviews |-> rs] :
        d \in {Null, 20}, rs \in SeqsUpTo(RawReviews, MaxFileLen)}

\* _extract_date_from_filename: the date of the name, else datetime.now()
extract_date_from_filename(file, now) ==
    IF file.date # Null THEN file.date ELSE now

\* one iteration of parse_json_file's loop (lines 41-54)
Normalize(raw, location_id, scrape_date) ==
    [location_id   |-> location_id,
     review_id     |-> Get(raw, "review_id", Null),
     rating        |-> Get(raw, "rating", Null),
     review_text   |-> Get(raw, "text", ""),
     relative_date |-> Get(raw, "relative_date", NullText),
     review_date   |-> parse_relative_date(Lex(Get(raw, "relative_date", "")),
                                           scrape_date)]

\* parse_json_file raises when normalizing some record raises
parse_raises(file) ==
    \E n \in 1..Len(file.reviews) : RelativeDateRaises(file.reviews[n])

parse_json_file(file, location_id, now) ==
    LET loc == IF location_id # NullText /\ location_id # ""
               THEN location_id ELSE file.location
        scrape_date == extract_date_from_filename(file, now)
    IN [n \in 1..Len(file.reviews) |-> Normalize(file.reviews[n], loc, scrape_date)]

RECURSIVE InsertAll(_, _)
\* the loop of ingest_file (lines 80-85): insert_review for each parsed review
InsertAll(rows, parsed) ==
    IF parsed = <<>> THEN rows
    ELSE InsertAll(insert_review(rows, parsed[1]), SubSeq(parsed, 2, Len(parsed)))

ingest_file(rows, file, location_id, now) ==
    IF parse_raises(file) THEN rows
    ELSE InsertAll(rows, parse_json_file(file, location_id, now))

Stored(rows, rid) == \E n \in 1..Len(rows) : rows[n].review_id = rid

\* Database.insert_review called with a normalized review
InsertReviewOp(raw, location_id, scrape_date) ==
    LET review == Normalize(raw, location_id, scrape_date)
    IN /\ ~RelativeDateRaises(raw)
       /\ reviews' = insert_review(reviews, review)
       /\ lastOp' = [op |-> "insert_review", review |-> review,
                     dup |-> Stored(reviews, review.review_id)]
       /\ UNCHANGED <<enrichments, runVars, histVars, embeddings, tx, lastCommit, result,
                       insights_cache, computed>>

NextInsert ==
    \E raw \in RawReviews, location_id \in Locations, scrape_date \in Nows :
        InsertReviewOp(raw, location_id, scrape_date)

SpecInsert == Init /\ [][NextInsert]_vars

\* a structured-scrape file is on disk; nothing was ingested yet
InitIngest ==
    /\ InitStore
    /\ InitRun
    /\ InitAux
    /\ lastOp \in {[op |-> "scraped", file |-> f] : f \in Files}

\* reviews another source put in the store before the file is ingested
Preload(raw, location_id, scrape_date) ==
    /\ lastOp.op = "scraped"
    /\ ~RelativeDateRaises(raw)
    /\ reviews' = insert_review(reviews, Normalize(raw, location_id, scrape_date))
    /\ reviews' # reviews
    /\ UNCHANGED <<enrichments, runVars, histVars, auxVars>>

\* ReviewParser.ingest_file(file_path, location_id) on the file on disk
IngestFileOp(location_id, now) ==
    /\ lastOp.op \in {"scraped", "ingest_file"}
    /\ reviews' = ingest_file(reviews, lastOp.file, location_id, now)
    /\ lastOp' = [op |-> "ingest_file", file |-> lastOp.file,
                  again |-> (lastOp.op = "ingest_file")]
    /\ UNCHANGED <<enrichments, runVars, histVars, embeddings, tx, lastCommit, result,
                       insights_cache, computed>>

NextIngest ==
    \/ \E raw \in RawReviews, location_id \in Locations, scrape_date \in Nows :
          Preload(raw, location_id, scrape_date)
    \/ \E location_id \in {NullText, "LAX"}, now \in Nows :
          IngestFileOp(location_id, now)

SpecIngest == InitIngest /\ [][NextIngest]_vars

UniqueReviewIds ==
    \A m, n \in 1..Len(reviews) :
        reviews[m].review_id = reviews[n].review_id => m = n

\* C6: the store holds at most one review per review_id; no step changes a
\* stored review; an insert_review whose review_id is already stored changes
\* nothing.
C6_InsertReviewIdempotent ==
    /\ []UniqueReviewIds
    /\ [][/\ Len(reviews') >= Len(reviews)
          /\ SubSeq(reviews', 1, Len(reviews)) = reviews
          /\ (lastOp'.op = "insert_review"
              /\ Stored(reviews, lastOp'.review.review_id)) => reviews' = reviews]_vars

\* an insert_review for a stored review_id carrying other field values was ignored
C6_Witness ==
    /\ lastOp.op = "insert_review"
    /\ lastOp.dup
    /\ \E n \in 1..Len(reviews) :
          /\ reviews[n].review_id = lastOp.review.review_id
          /\ reviews[n] # ReviewRow(lastOp.review)

\* C7: ingesting the file that was ingested last leaves the reviews table as
\* it was, whatever the location hint and the day of the second ingestion.
C7_IngestTwice ==
    [][(lastOp.op = "ingest_file" /\ lastOp'.op = "ingest_file"
        /\ lastOp'.file = lastOp.file) => reviews' = reviews]_vars

\* a file without a date in its name, holding two storable reviews, was
\* ingested a second time
C7_Witness ==
    /\ lastOp.op = "ingest_file"
    /\ lastOp.again
    /\ lastOp.file.date = Null
    /\ Len(reviews) = 2

\* a review object the normalizer and the store accept
WellFormed(raw) ==
    /\ "review_id" \in DOMAIN raw
    /\ "rating" \in DOMAIN raw
    /\ ~RelativeDateRaises(raw)

\* C20: a malformed review record of a structured-scrape file is skipped and
\* never aborts the file: once ingest_file has run, every well-formed record of
\* the file is stored, whatever other records the file holds.
C20_MalformedSkipped ==
    lastOp.op = "ingest_file" =>
        \A n \in 1..Len(lastOp.file.reviews) :
            WellFormed(lastOp.file.reviews[n]) =>
                Stored(reviews, lastOp.file.reviews[n].review_id)

\* ================================================================== queries
\* the rows review n can be stored as
RowsOf(n) ==
    {[review_id |-> n, location_id |-> l, rating |-> r, review_date |-> d] :
        l \in Locations, r \in {2, 4}, d \in {1, 2}}

RECURSIVE TablesOf(_)
\* the reviews tables of n rows, review n inserted n-th
TablesOf(n) ==
    IF n = 0 THEN {<<>>}
    ELSE {Append(t, row) : t \in TablesOf(n - 1), row \in RowsOf(n)}

QueryTables == UNION {TablesOf(n) : n \in 0..MaxRows}

\* the arguments of get_reviews: the rating filters are None or in 1..5
\* (api/app.py validates ge=1, le=5), the limit is not negative
RatingFilters == {Null, 2, 4}
QueryLimits == {0, 1, 2, 100}

InitQuery ==
    /\ reviews \in QueryTables
    /\ enrichments = {}
    /\ embeddings = {}
    /\ InitRun
    /\ InitAux
    /\ lastOp = [op |-> "none"]

\* Database.get_reviews(location_id, min_rating, max_rating, limit): a read
\* that changes nothing, so one call per table and argument list is followed
GetReviewsOp(location_id, min_rating, max_rating, limit) ==
    /\ lastOp.op = "none"
    /\ result' = get_reviews(reviews, location_id, min_rating, max_rating, limit)
    /\ lastOp' = [op |-> "get_reviews", location_id |-> location_id,
                  min_rating |-> min_rating, max_rating |-> max_rating,
                  limit |-> limit]
    /\ UNCHANGED <<reviews, enrichments, runVars, histVars, embeddings, tx, lastCommit,
                   insights_cache, computed>>

NextQuery ==
    \E location_id \in Locations \cup {NullText}, min_rating \in RatingFilters,
       max_rating \in RatingFilters, limit \in QueryLimits :
        GetReviewsOp(location_id, min_rating, max_rating, limit)

SpecQuery == InitQuery /\ [][NextQuery]_vars

\* the stored rows that satisfy the filters the last query supplied
Satisfies(row) ==
    /\ lastOp.location_id # NullText => row.location_id = lastOp.location_id
    /\ lastOp.min_rating # Null => row.rating >= lastOp.min_rating
    /\ lastOp.max_rating # Null => row.rating <= lastOp.max_rating

InResult(row) == \E n \in 1..Len(result) : result[n] = row

ToBytes(v) == <<"bytes", v>>

\* VectorStore._store_embedding: INSERT OR REPLACE INTO embeddings
store_embedding(tbl, review_id, embedding) ==
    {r \in tbl : r.review_id # review_id} \cup
        {[review_id |-> review_id, embedding |-> ToBytes(embedding)]}

\* the upserts writer w issues for a review: a full enrichment, an enrichment
\* with only a sentiment_score, an embedding; every value names the writer
Statements(w, rid) ==
    {[table |-> "enrichments", review_id |-> rid, writer |-> w,
      arg |-> Annotation(rid, w)],
     [table |-> "enrichments", review_id |-> rid, writer |-> w,
      arg |-> [review_id |-> rid, sentiment_score |-> w]],
     [table |-> "embeddings", review_id |-> rid, writer |-> w,
      arg |-> <<w, w>>]}

\* the row a statement leaves in its table
RowOf(stmt) ==
    IF stmt.table = "enrichments" THEN EnrichmentRow(stmt.arg)
    ELSE [review_id |-> stmt.review_id, embedding |-> ToBytes(stmt.arg)]

LockFree == \A w \in Writers : tx[w] = NoTx

\* cursor.execute: the connection's transaction begins and takes the write
\* lock; the row is not visible to other connections before commit
Execute(w, stmt) ==
    /\ LockFree
    /\ tx' = [tx EXCEPT ![w] = stmt]
    /\ lastOp' = [op |-> "execute", writer |-> w]
    /\ UNCHANGED <<reviews, enrichments, embeddings, runVars, histVars,
                   lastCommit, result, insights_cache, computed>>

\* cursor.execute while another connection holds the write lock: sqlite3
\* raises "database is locked" when the busy timeout ends, nothing is written
ExecuteLocked(w) ==
    /\ tx[w] = NoTx
    /\ ~LockFree
    /\ lastOp' = [op |-> "locked", writer |-> w]
    /\ UNCHANGED <<reviews, enrichments, embeddings, runVars, histVars,
                   tx, lastCommit, result, insights_cache, computed>>

\* the writer whose row a statement replaces, 0 when there is none
Replaced(stmt) ==
    IF lastCommit[stmt.table][stmt.review_id] = NoTx THEN 0
    ELSE lastCommit[stmt.table][stmt.review_id].writer

\* conn.commit(): the statement's effect becomes the stored state
Commit(w) ==
    /\ tx[w] # NoTx
    /\ IF tx[w].table = "enrichments"
       THEN /\ enrichments' = insert_enrichment(enrichments, tx[w].arg)
            /\ UNCHANGED embeddings
       ELSE /\ embeddings' = store_embedding(embeddings, tx[w].review_id, tx[w].arg)
            /\ UNCHANGED enrichments
    /\ lastCommit' = [lastCommit EXCEPT ![tx[w].table][tx[w].review_id] =
                        [table |-> tx[w].table, review_id |-> tx[w].review_id,
                         writer |-> w, arg |-> tx[w].arg,
                         over |-> Replaced(tx[w])]]
    /\ tx' = [tx EXCEPT ![w] = NoTx]
    /\ lastOp' = [op |-> "commit", writer |-> w]
    /\ UNCHANGED <<reviews, runVars, histVars, result, insights_cache, computed>>

\* the writer dies before commit: its transaction is rolled back
Rollback(w) ==
    /\ tx[w] # NoTx
    /\ tx' = [tx EXCEPT ![w] = NoTx]
    /\ lastOp' = [op |-> "rollback", writer |-> w]
    /\ UNCHANGED <<reviews, enrichments, embeddings, runVars, histVars,
                   lastCommit, result, insights_cache, computed>>

NextUpsert ==
    \/ \E w \in Writers, rid \in UpsertIds : \E stmt \in Statements(w, rid) :
          Execute(w, stmt)
    \/ \E w \in Writers : ExecuteLocked(w)
    \/ \E w \in Writers : Commit(w)
    \/ \E w \in Writers : Rollback(w)

SpecUpsert == Init /\ [][NextUpsert]_vars

TableOf(t) == IF t = "enrichments" THEN enrichments ELSE embeddings

RowsFor(t, rid) == {r \in TableOf(t) : r.review_id = rid}

\* C8: at most one enrichment per review_id, and it carries, in each of
\* topics, sentiment, sentiment_score and entities, what the most recent
\* insert_enrichment for that review_id gave (the default where it gave none).
C8_EnrichmentReplacedWholesale ==
    \A rid \in UpsertIds :
        LET last == lastCommit["enrichments"][rid]
            rows == RowsFor("enrichments", rid)
        IN /\ Cardinality(rows) <= 1
           /\ last = NoTx => rows = {}
           /\ last # NoTx =>
                 /\ Cardinality(rows) = 1
                 /\ \A r \in rows :
                       /\ r.topics = JsonDumps(Get(last.arg, "topics", <<>>))
                       /\ r.sentiment = Get(last.arg, "sentiment", Null)
                       /\ r.sentiment_score = Get(last.arg, "sentiment_score", Null)
                       /\ r.entities = JsonDumps(Get(last.arg, "entities", <<>>))

\* an enrichment giving only sentiment_score replaced a full one
C8_Witness ==
    \E rid \in UpsertIds :
        LET last == lastCommit["enrichments"][rid]
        IN /\ last # NoTx
           /\ last.over # 0
           /\ "sentiment" \notin DOMAIN last.arg
           /\ \E r \in enrichments : r.review_id = rid /\ r.sentiment = Null

\* C9: in both tables, whatever the interleaving of the writers, a review_id
\* has at most one row, that row is the row of one statement of one writer,
\* and that writer is the one that committed last for the review_id; a
\* statement not yet committed has changed no table.
C9_AtomicUpsert ==
    \A t \in Tables, rid \in UpsertIds :
        LET last == lastCommit[t][rid]
            rows == RowsFor(t, rid)
        IN /\ Cardinality(rows) <= 1
           /\ last = NoTx => rows = {}
           /\ \A r \in rows :
                 /\ \E w \in Writers : \E stmt \in Statements(w, rid) :
                       /\ stmt.table = t
                       /\ r = RowOf(stmt)
                       /\ w = last.writer
                 /\ r = RowOf(last)

\* writer 2 replaced writer 1's enrichment of review 1 while writer 1 has
\* executed, and not committed, another upsert of the same review
C9_Witness ==
    /\ lastCommit["enrichments"][1] # NoTx
    /\ lastCommit["enrichments"][1].writer = 2
    /\ lastCommit["enrichments"][1].over = 1
    /\ tx[1] # NoTx
    /\ tx[1].table = "enrichments"
    /\ tx[1].review_id = 1
    /\ lastCommit["embeddings"][1] # NoTx
    /\ lastCommit["embeddings"][1].over = 2

\* ================================================================== lookups
\* the enrichment columns of a LEFT JOIN row that found no enrichment
NoEnrichment ==
    [topics |-> NullJson, sentiment |-> Null, sentiment_score |-> Null,
     entities |-> NullJson]

\* the columns e.topics, e.sentiment, e.sentiment_score, e.entities
EnrichmentColumns(e) ==
    [topics |-> e.topics, sentiment |-> e.sentiment,
     sentiment_score |-> e.sentiment_score, entities |-> e.entities]

\* JOIN in place of LEFT JOIN: a review without enrichment gives no row
get_review_with_enrichment_inner(rows, enr, review_id) ==
    LET Hit(r) == r.review_id = review_id
                  /\ \E e \in enr : e.review_id = r.review_id
        hits == SelectSeq(rows, Hit)
    IN IF hits = <<>> THEN None
       ELSE LET e == CHOOSE x \in enr : x.review_id = hits[1].review_id
            IN hits[1] @@ EnrichmentColumns(e)

\* Database.get_review_with_enrichment: SELECT r.*, e.topics, ... FROM reviews r
\* LEFT JOIN enrichments e ... WHERE r.review_id = ?; fetchone; dict or None
get_review_with_enrichment(rows, enr, review_id) ==
    LET Hit(r) == r.review_id = review_id
        hits == SelectSeq(rows, Hit)
    IN IF hits = <<>> THEN None
       ELSE LET es == {e \in enr : e.review_id = hits[1].review_id}
            IN IF es = {} THEN hits[1] @@ NoEnrichment
               ELSE hits[1] @@ EnrichmentColumns(CHOOSE e \in es : TRUE)

\* the reviews table after the catalogue's first m reviews were ingested
CatalogTable(m) == [n \in 1..m |-> ReviewRow(CatalogReview(n))]

\* the enrichment dicts insert_enrichment is called with: a full annotation
\* or one giving only a sentiment_score, for a stored or an unknown review_id
LookupEnrichments ==
    {Annotation(rid, tag) : rid \in 1..ForeignId, tag \in {1, 2}} \cup
    {[review_id |-> rid, sentiment_score |-> tag] :
        rid \in 1..ForeignId, tag \in {1, 2}}

InitLookup ==
    /\ reviews \in {CatalogTable(m) : m \in 0..MaxReviews}
    /\ enrichments = {}
    /\ embeddings = {}
    /\ InitRun
    /\ InitAux
    /\ lastOp = [op |-> "none"]

\* Database.insert_enrichment(enrichment)
InsertEnrichmentOp(enrichment) ==
    /\ enrichments' = insert_enrichment(enrichments, enrichment)
    /\ lastOp' = [op |-> "insert_enrichment"]
    /\ UNCHANGED <<reviews, runVars, histVars, embeddings, tx, lastCommit, result,
                   insights_cache, computed>>

\* Database.get_review_with_enrichment(review_id)
GetReviewWithEnrichmentOp(review_id) ==
    /\ result' = get_review_with_enrichment(reviews, enrichments, review_id)
    /\ lastOp' = [op |-> "get_review_with_enrichment", review_id |-> review_id]
    /\ UNCHANGED <<reviews, enrichments, runVars, histVars, embeddings, tx,
                   lastCommit, insights_cache, computed>>

NextLookup ==
    \/ \E enrichment \in LookupEnrichments : InsertEnrichmentOp(enrichment)
    \/ \E review_id \in 1..ForeignId : GetReviewWithEnrichmentOp(review_id)

SpecLookup == InitLookup /\ [][NextLookup]_vars

\* C11: for a review_id that is not stored the lookup returns None; for a
\* stored review without enrichment it returns the review's columns with
\* topics, sentiment, sentiment_score and entities null; for a stored review
\* with an enrichment it returns the review's columns with that enrichment's
\* four columns.
C11_LookupLeftJoin ==
    lastOp.op = "get_review_with_enrichment" =>
        LET rid == lastOp.review_id
            at == {n \in 1..Len(reviews) : reviews[n].review_id = rid}
            es == {e \in enrichments : e.review_id = rid}
        IN /\ at = {} => result = None
           /\ \A n \in at :
                 /\ result # None
                 /\ \A col \in DOMAIN reviews[n] : result[col] = reviews[n][col]
                 /\ es = {} =>
                       /\ result.topics = NullJson
                       /\ result.sentiment = Null
                       /\ result.sentiment_score = Null
                       /\ result.entities = NullJson
                 /\ \A e \in es :
                       /\ result.topics = e.topics
                       /\ result.sentiment = e.sentiment
                       /\ result.sentiment_score = e.sentiment_score
                       /\ result.entities = e.entities

\* a stored review without enrichment was looked up while another review has
\* an enrichment and an enrichment of an unknown review_id is stored
C11_Witness ==
    /\ lastOp.op = "get_review_with_enrichment"
    /\ result # None
    /\ result.review_id = lastOp.review_id
    /\ result.sentiment = Null
    /\ result.topics = NullJson
    /\ \E e \in enrichments : e.review_id = ForeignId
    /\ \E e \in enrichments : \E n \in 1..Len(reviews) :
          reviews[n].review_id = e.review_id

\* ========================================================== embedding index
\* np.frombuffer(embedding_bytes, dtype=np.float32): the vector of the bytes
FromBuffer(bytes) == bytes[2]

RECURSIVE Dot(_, _)
\* np.dot of two vectors of the same length
Dot(a, b) ==
    IF a = <<>> THEN 0
    ELSE a[1] * b[1] + Dot(SubSeq(a, 2, Len(a)), SubSeq(b, 2, Len(b)))

\* np.dot(a, b) of 1-D arrays of different lengths raises ValueError
DotRaises(a, b) == Len(a) # Len(b)

\* np.dot(q, e) / (np.linalg.norm(q) * np.linalg.norm(e)), kept exact as the
\* signed square sign(d) * d^2 / (|q|^2 * |e|^2): the same order as the
\* quotient, 1.0 exactly when num = den; 0/0 is nan (numpy warns, no raise)
Similarity(q, e) ==
    LET d == Dot(q, e)
        den == Dot(q, q) * Dot(e, e)
    IN IF den = 0 THEN [nan |-> TRUE, num |-> 0, den |-> 1]
       ELSE [nan |-> FALSE, num |-> IF d < 0 THEN -(d * d) ELSE d * d, den |-> den]

\* x < y on floats: False when either is nan
Lt(x, y) == ~x.nan /\ ~y.nan /\ x.num * y.den < y.num * x.den

IsOne(x) == ~x.nan /\ x.num = x.den

RECURSIVE Orderings(_)
\* the sequences that list each element of a finite set once
Orderings(S) ==
    IF S = {} THEN {<<>>}
    ELSE UNION {{<<x>> \o p : p \in Orderings(S \ {x})} : x \in S}

\* results.append((review_id, similarity)) for each row fetched (lines 38-42)
Scored(scan, query_embedding) ==
    [n \in 1..Len(scan) |->
        [review_id |-> scan[n].review_id,
         similarity |-> Similarity(query_embedding, FromBuffer(scan[n].embedding))]]

\* one insertion of a stable descending sort: r goes after every entry that
\* is not smaller than it
InsertDesc(s, r) ==
    LET n == Cardinality({j \in 1..Len(s) : ~Lt(s[j].similarity, r.similarity)})
    IN SubSeq(s, 1, n) \o <<r>> \o SubSeq(s, n + 1, Len(s))

RECURSIVE SortDesc(_)
SortDesc(s) ==
    IF s = <<>> THEN <<>>
    ELSE InsertDesc(SortDesc(SubSeq(s, 1, Len(s) - 1)), s[Len(s)])

\* results.sort(key=lambda x: x[1], reverse=True): the stable descending
\* order when the keys are ordered; with a nan key the comparisons are not a
\* total order and list.sort leaves the list in an unspecified order
SortOutcomes(results) ==
    IF \E n \in 1..Len(results) : results[n].similarity.nan
    THEN {[n \in 1..Len(results) |-> results[p[n]]] : p \in Orderings(1..Len(results))}
    ELSE {SortDesc(results)}

\* results[:limit] for limit >= 0
Prefix(s, limit) == SubSeq(s, 1, Min(limit, Len(s)))

\* lines 45-50: the joined review of each top result, with similarity_score;
\* a review_id that is not stored is skipped
TopResults(rows, enr, top) ==
    LET Joined(n) ==
            LET review == get_review_with_enrichment(rows, enr, top[n].review_id)
            IN IF review = None THEN None
               ELSE review @@ [similarity_score |-> top[n].similarity]
        Found(r) == r # None
    IN SelectSeq([n \in 1..Len(top) |-> Joined(n)], Found)

\* a call that ended in an exception, and one that returned a list
Raised == [raised |-> TRUE, reviews |-> <<>>]
Returned(list) == [raised |-> FALSE, reviews |-> list]

\* VectorStore.search_similar(query, limit), given model.encode(query); the
\* rows of SELECT review_id, embedding FROM embeddings come in no specified
\* order
search_similar(rows, enr, emb, query_embedding, limit) ==
    IF \E r \in emb : DotRaises(query_embedding, FromBuffer(r.embedding))
    THEN {Raised}
    ELSE {Returned(TopResults(rows, enr, Prefix(sorted, limit))) :
            sorted \in UNION {SortOutcomes(Scored(scan, query_embedding)) :
                                scan \in Orderings(emb)}}

\* what SentenceTransformer(model_name).encode gives for a review text: the
\* default model gives vectors of one length; the zero vector is the
\* embedding of a degenerate text
Vectors == {<<0, 0>>, <<1, 0>>, <<1, 1>>, <<0, 1>>}
\* a model of another dimensionality
OtherModelVector == <<1, 0, 0>>
Encoders == [ReviewIds -> Vectors] \cup {[rid \in ReviewIds |-> OtherModelVector]}
QueryVectors == Vectors \cup {<<2, 1>>, OtherModelVector}
SearchLimits == {1, 2, 5}

RECURSIVE StoreAll(_, _, _)
\* the loop of generate_embeddings: a review with a text gets its embedding
StoreAll(emb, todo, encode) ==
    IF todo = <<>> THEN emb
    ELSE LET review == todo[1]
             rest == SubSeq(todo, 2, Len(todo))
         IN IF review.review_text # NullText /\ review.review_text # ""
            THEN StoreAll(store_embedding(emb, review.review_id,
                                          encode[review.review_id]), rest, encode)
            ELSE StoreAll(emb, rest, encode)

\* VectorStore.generate_embeddings(location_id)
generate_embeddings(rows, emb, location_id, encode) ==
    StoreAll(emb, get_reviews(rows, location_id, Null, Null, DefaultLimit), encode)

InitSearch ==
    /\ reviews \in {CatalogTable(m) : m \in 1..MaxReviews}
    /\ enrichments = {}
    /\ embeddings = {}
    /\ InitRun
    /\ InitAux
    /\ lastOp = [op |-> "none"]

\* VectorStore(model_name).generate_embeddings(location_id)
GenerateEmbeddingsOp(location_id, encode) ==
    /\ lastOp.op # "search_similar"
    /\ embeddings' = generate_embeddings(reviews, embeddings, location_id, encode)
    /\ lastOp' = [op |-> "generate_embeddings"]
    /\ UNCHANGED <<reviews, enrichments, runVars, histVars, tx, lastCommit, result,
                   insights_cache, computed>>

\* VectorStore.search_similar(query, limit): a read, followed once per store
SearchSimilarOp(query_embedding, limit) ==
    /\ lastOp.op # "search_similar"
    /\ \E out \in search_similar(reviews, enrichments, embeddings,
                                 query_embedding, limit) :
          /\ result' = out.reviews
          /\ lastOp' = [op |-> "search_similar", query |-> query_embedding,
                        limit |-> limit, raised |-> out.raised]
    /\ UNCHANGED <<reviews, enrichments, embeddings, runVars, histVars, tx,
                   lastCommit, insights_cache, computed>>

NextSearch ==
    \/ \E location_id \in {NullText, "JFK"}, encode \in Encoders :
          GenerateEmbeddingsOp(location_id, encode)
    \/ \E query_embedding \in QueryVectors, limit \in SearchLimits :
          SearchSimilarOp(query_embedding, limit)

SpecSearch == InitSearch /\ [][NextSearch]_vars

Searched == lastOp.op = "search_similar"

\* the similarity of a stored embedding to the query of the last search
StoredSimilarity(e) == Similarity(lastOp.query, FromBuffer(e.embedding))

PositionsOf(rid) == {a \in 1..Len(result) : result[a].review_id = rid}

\* C12: the result of search_similar has at most k reviews, one for every
\* stored embedding unless it is full; no review comes after one of a
\* strictly smaller similarity; no embedding left out has a similarity
\* strictly greater than that of a review returned.
C12_SearchTopK ==
    (Searched /\ ~lastOp.raised) =>
        /\ Len(result) <= lastOp.limit
        /\ Len(result) = Min(lastOp.limit, Cardinality(embeddings))
        /\ \A a, b \in 1..Len(result) :
              a < b => ~Lt(result[a].similarity_score, result[b].similarity_score)
        /\ \A e \in embeddings :
              PositionsOf(e.review_id) = {} =>
                  \A a \in 1..Len(result) :
                      ~Lt(result[a].similarity_score, StoredSimilarity(e))

\* C13: a stored review whose vector is the query vector gets similarity 1.0
\* and the first rank: every review returned before it has similarity 1.0
\* too, and it is left out only of a result filled with such reviews.
C13_IdenticalFirst ==
    (Searched /\ ~lastOp.raised) =>
        \A e \in embeddings :
            FromBuffer(e.embedding) = lastOp.query =>
                /\ IsOne(StoredSimilarity(e))
                /\ \A a \in PositionsOf(e.review_id) :
                      /\ IsOne(result[a].similarity_score)
                      /\ \A b \in 1..(a - 1) : IsOne(result[b].similarity_score)
                /\ PositionsOf(e.review_id) = {} =>
                      /\ Len(result) = lastOp.limit
                      /\ \A b \in 1..Len(result) : IsOne(result[b].similarity_score)

\* C14: a zero-norm vector makes no search fail; a review whose similarity
\* is undefined comes after every review with a defined similarity and is
\* never returned in place of one; the reviews with a defined similarity are
\* in non-increasing order.
C14_ZeroNormRankedLast ==
    Searched =>
        /\ lastOp.raised =>
              \E e \in embeddings : Len(FromBuffer(e.embedding)) # Len(lastOp.query)
        /\ ~lastOp.raised =>
              /\ \A a, b \in 1..Len(result) :
                    a < b =>
                        /\ result[a].similarity_score.nan => result[b].similarity_score.nan
                        /\ ~Lt(result[a].similarity_score, result[b].similarity_score)
              /\ \A e \in embeddings :
                    (PositionsOf(e.review_id) = {} /\ ~StoredSimilarity(e).nan) =>
                        \A a \in 1..Len(result) : ~result[a].similarity_score.nan

\* C15: all stored embeddings have one dimensionality, and a search whose
\* query has another dimensionality than a stored embedding fails.
C15_OneDimensionality ==
    /\ \A e1, e2 \in embeddings :
          Len(FromBuffer(e1.embedding)) = Len(FromBuffer(e2.embedding))
    /\ Searched =>
          (lastOp.raised <=>
              \E e \in embeddings : Len(FromBuffer(e.embedding)) # Len(lastOp.query))

\* ================================================================ responder
\* most reviews in the store when a chat request arrives
MaxChatReviews == 16
\* limit=5 of the semantic search, limit=10 of the recency query, the 5
\* reviews of the context block and the 3 citations
SemanticLimit == 5
RecentLimit == 10
ContextReviews == 5
Citations == 3

\* the stored reviews of the responder's scenarios: review 2 has no text
\* (NULL), the reviews after the seventh have an empty text
ChatReview(rid) ==
    [review_id |-> rid,
     location_id |-> IF rid % 3 = 0 THEN "LAX" ELSE "JFK",
     rating |-> (rid % 5) + 1,
     review_text |-> IF rid = 2 THEN NullText ELSE IF rid > 7 THEN "" ELSE "text",
     review_date |-> ((rid * 3) % (MaxChatReviews + 1)) + 1]

ChatTable(m) == [n \in 1..m |-> ReviewRow(ChatReview(n))]

\* the embedding models: the default one and one of another dimensionality
DefaultModel == [rid \in 1..(MaxChatReviews + 1) |-> <<rid % 4, 3 - (rid % 3)>>]
OtherModel == [rid \in 1..(MaxChatReviews + 1) |-> OtherModelVector]
ChatQueryVectors == {<<1, 0>>, <<1, 2>>}

\* what BedrockClient.invoke does: it returns the model's text or it raises
InvokeOutcomes == {"text", "raise"}

\* the semantic results narrowed to location_id
chat_reviews_by_location(rows, enr, emb, query_embedding, location_id, use_semantic) ==
    IF use_semantic
    THEN LET Here(r) == (location_id # NullText /\ location_id # "")
                           => r.location_id = location_id
         IN {IF out.raised THEN out ELSE Returned(SelectSeq(out.reviews, Here)) :
                out \in search_similar(rows, enr, emb, query_embedding, SemanticLimit)}
    ELSE {Returned(get_reviews(rows, location_id, Null, Null, RecentLimit))}

\* chat.py lines 13-16: the list `reviews`
chat_reviews(rows, enr, emb, query_embedding, location_id, use_semantic) ==
    IF use_semantic
    THEN search_similar(rows, enr, emb, query_embedding, SemanticLimit)
    ELSE {Returned(get_reviews(rows, location_id, Null, Null, RecentLimit))}

\* _build_context: the first 5 reviews; review['review_text'][:300] raises
\* TypeError when the text is None
build_context(list) == Prefix(list, ContextReviews)
build_context_raises(list) ==
    \E n \in 1..Len(build_context(list)) : list[n].review_text = NullText

\* line 31: the first 3 reviews, with r['review_text'][:150]
citations(list) ==
    [n \in 1..Len(Prefix(list, Citations)) |->
        [review_id |-> list[n].review_id, text |-> list[n].review_text]]

\* a request that ended in HTTPException(status_code=500)
NoAnswer == [answer |-> NullText, citations |-> <<>>, review_count |-> 0]

\* a failed invoke is called again and the second answer returned
chat_retrying(src, invoke) ==
    IF src.raised
    THEN [status |-> 500, llm_calls |-> 0, failed |-> "reviews", body |-> NoAnswer]
    ELSE IF build_context_raises(src.reviews)
    THEN [status |-> 500, llm_calls |-> 0, failed |-> "context", body |-> NoAnswer]
    ELSE [status |-> 200, llm_calls |-> IF invoke = "raise" THEN 2 ELSE 1,
          failed |-> "none",
          body |-> [answer |-> "text", citations |-> citations(src.reviews),
                    review_count |-> Len(src.reviews)]]

\* ChatEngine.chat lines 18-33 behind the endpoint's try/except (app.py
\* 66-72): an exception of any step becomes a 500 response
chat(src, invoke) ==
    IF src.raised
    THEN [status |-> 500, llm_calls |-> 0, failed |-> "reviews", body |-> NoAnswer]
    ELSE IF build_context_raises(src.reviews)
    THEN [status |-> 500, llm_calls |-> 0, failed |-> "context", body |-> NoAnswer]
    ELSE IF invoke = "raise"
    THEN [status |-> 500, llm_calls |-> 1, failed |-> "invoke", body |-> NoAnswer]
    ELSE [status |-> 200, llm_calls |-> 1, failed |-> "none",
          body |-> [answer |-> "text", citations |-> citations(src.reviews),
                    review_count |-> Len(src.reviews)]]

InitChat ==
    /\ reviews \in {ChatTable(m) : m \in 0..MaxChatReviews}
    /\ enrichments = {}
    /\ embeddings = {}
    /\ InitRun
    /\ InitAux
    /\ lastOp = [op |-> "none"]

\* VectorStore(model_name).generate_embeddings(location_id) before the request
ChatGenerateEmbeddings(location_id, encode) ==
    /\ lastOp.op # "chat"
    /\ embeddings' = generate_embeddings(reviews, embeddings, location_id, encode)
    /\ embeddings' # embeddings
    /\ lastOp' = [op |-> "generate_embeddings"]
    /\ UNCHANGED <<reviews, enrichments, runVars, histVars, tx, lastCommit, result,
                   insights_cache, computed>>

\* POST /api/chat: one request, followed once per store
ChatOp(query_embedding, location_id, use_semantic, invoke) ==
    /\ lastOp.op # "chat"
    /\ \E src \in chat_reviews(reviews, enrichments, embeddings, query_embedding,
                               location_id, use_semantic) :
          LET out == chat(src, invoke)
          IN /\ result' = out.body
             /\ lastOp' = [op |-> "chat", query |-> query_embedding,
                           location_id |-> location_id,
                           use_semantic |-> use_semantic, invoke |-> invoke,
                           index_reads |-> IF use_semantic THEN 1 ELSE 0,
                           src |-> src, context |-> build_context(src.reviews),
                           status |-> out.status, llm_calls |-> out.llm_calls,
                           failed |-> out.failed]
    /\ UNCHANGED <<reviews, enrichments, embeddings, runVars, histVars, tx,
                   lastCommit, insights_cache, computed>>

NextChat ==
    \/ \E location_id \in {NullText, "JFK"}, encode \in {DefaultModel, OtherModel} :
          ChatGenerateEmbeddings(location_id, encode)
    \/ \E query_embedding \in ChatQueryVectors,
          location_id \in {NullText, "JFK", "LAX"},
          use_semantic \in BOOLEAN, invoke \in InvokeOutcomes :
          ChatOp(query_embedding, location_id, use_semantic, invoke)

SpecChat == InitChat /\ [][NextChat]_vars

\* C16: with use_semantic the list of context reviews is a result of the
\* index search for the query with limit 5, one review per stored embedding
\* up to 5, whatever location_id is; without it the list is the at most 10
\* most recent stored reviews of location_id (of all locations when none is
\* given) and the index is not read.
C16_SourceSelection ==
    lastOp.op = "chat" =>
        /\ lastOp.use_semantic =>
              /\ lastOp.index_reads = 1
              /\ lastOp.src \in search_similar(reviews, enrichments, embeddings,
                                               lastOp.query, 5)
              /\ ~lastOp.src.raised =>
                    Len(lastOp.src.reviews) = Min(5, Cardinality(embeddings))
        /\ ~lastOp.use_semantic =>
              LET list == lastOp.src.reviews
                  Here(row) == lastOp.location_id # NullText
                                  => row.location_id = lastOp.location_id
              IN /\ lastOp.index_reads = 0
                 /\ ~lastOp.src.raised
                 /\ Len(list) <= 10
                 /\ \A a \in 1..Len(list) :
                       /\ Here(list[a])
                       /\ \E n \in 1..Len(reviews) : reviews[n] = list[a]
                 /\ \A a, b \in 1..Len(list) :
                       a < b => /\ list[a].review_date >= list[b].review_date
                                /\ list[a] # list[b]
                 /\ \A n \in 1..Len(reviews) :
                       (Here(reviews[n])
                        /\ \A a \in 1..Len(list) : list[a] # reviews[n]) =>
                           /\ Len(list) = 10
                           /\ \A a \in 1..Len(list) :
                                 list[a].review_date >= reviews[n].review_date

\* a semantic request for location LAX over an index of 6 embeddings got 5
\* reviews, reviews of JFK among them
C16_Witness ==
    /\ lastOp.op = "chat"
    /\ lastOp.use_semantic
    /\ lastOp.location_id = "LAX"
    /\ ~lastOp.src.raised
    /\ Cardinality(embeddings) = 6
    /\ Len(lastOp.src.reviews) = 5
    /\ \E a \in 1..5 : lastOp.src.reviews[a].location_id = "JFK"

\* C17 as stated: every chat request makes exactly one call of the language
\* model, and a request whose call failed ends in the error response without
\* an answer.
C17_ExactlyOneCall ==
    lastOp.op = "chat" =>
        /\ lastOp.llm_calls = 1
        /\ lastOp.invoke = "raise" => (lastOp.status = 500 /\ result = NoAnswer)

\* C17 amended: a chat request makes at most one call of the language model:
\* one when the context reviews were fetched and the context built, none
\* when one of these raised, and the request then ends in the error response;
\* a request whose call failed ends in the error response without an answer
\* and without a second call; a request whose call returned answers with it.
C17_AtMostOneCall ==
    lastOp.op = "chat" =>
        /\ lastOp.llm_calls <= 1
        /\ lastOp.llm_calls = 1 <=>
              (~lastOp.src.raised /\ ~build_context_raises(lastOp.src.reviews))
        /\ lastOp.llm_calls = 0 => (lastOp.status = 500 /\ result = NoAnswer)
        /\ (lastOp.llm_calls = 1 /\ lastOp.invoke = "raise") =>
              (lastOp.status = 500 /\ result = NoAnswer)
        /\ (lastOp.llm_calls = 1 /\ lastOp.invoke = "text") =>
              /\ lastOp.status = 200
              /\ result.answer = "text"
              /\ result.review_count = Len(lastOp.src.reviews)

\* a request over 10 fetched reviews whose call of the language model failed
C17_Witness ==
    /\ lastOp.op = "chat"
    /\ lastOp.invoke = "raise"
    /\ lastOp.llm_calls = 1
    /\ lastOp.status = 500
    /\ result = NoAnswer
    /\ Len(lastOp.src.reviews) = 10

\* =========================================================== insights cache
\* the window a review_date falls in
WindowOf(review_date) == IF review_date >= 2 THEN "late" ELSE "early"

\* the window generate_insights and get_cached_insights use when the
\* endpoint gives none
DefaultWindow == "late"

\* json.loads of a stored topics column
JsonLoads(text) == text[2]

RECURSIVE SumScores(_)
SumScores(es) ==
    IF es = {} THEN 0
    ELSE LET e == CHOOSE x \in es : TRUE
         IN e.sentiment_score + SumScores(es \ {e})

Occurrences(list, t) == Cardinality({n \in 1..Len(list) : list[n] = t})

RECURSIVE TopicCount(_, _)
TopicCount(es, t) ==
    IF es = {} THEN 0
    ELSE LET e == CHOOSE x \in es : TRUE
         IN Occurrences(JsonLoads(e.topics), t) + TopicCount(es \ {e}, t)

\* what compute aggregates for a key from the reviews of the location in the
\* window and their enrichments: topic frequency per occurrence, the
\* sentiment total behind the key drivers, the reviews quoted (those of the
\* highest sentiment score)
Aggregate(rows, enr, location_id, window) ==
    LET ids == {rows[n].review_id :
                  n \in {m \in 1..Len(rows) :
                           /\ rows[m].location_id = location_id
                           /\ WindowOf(rows[m].review_date) = window}}
        es == {e \in enr : e.review_id \in ids}
        topics == UNION {{JsonLoads(e.topics)[n] : n \in 1..Len(JsonLoads(e.topics))} :
                           e \in es}
    IN [top_topics |-> [t \in topics |-> TopicCount(es, t)],
        key_drivers |-> SumScores(es),
        representative_quotes |->
            {e.review_id : e \in {x \in es : \A y \in es :
                                     x.sentiment_score >= y.sentiment_score}}]

\* the cached rows of a key
CachedRows(cache, location_id, window) ==
    {r \in cache : r.location_id = location_id /\ r.time_window = window}

\* the row compute builds: the aggregate and the generated narrative
InsightRow(rows, enr, location_id, window, narrative) ==
    [location_id |-> location_id, time_window |-> window,
     generated_summary |-> narrative] @@ Aggregate(rows, enr, location_id, window)

\* compute(location_id, window): always recomputes from the stored reviews
\* and enrichments and overwrites the key's entry
compute(rows, enr, cache, location_id, window, narrative) ==
    LET row == InsightRow(rows, enr, location_id, window, narrative)
    IN [cache |-> (cache \ CachedRows(cache, location_id, window)) \cup {row},
        insight |-> row]

\* get(location_id, window): the cached entry of the key, or absent
get(cache, location_id, window) ==
    LET hit == CachedRows(cache, location_id, window)
    IN IF hit = {} THEN None ELSE CHOOSE r \in hit : TRUE

\* the narrative generation service's texts
Narratives == {"summary"}

\* whether a cached insight no longer is the aggregate of the stored data
Stale(insight, location_id, window) ==
    LET now == Aggregate(reviews, enrichments, location_id, window)
    IN insight # None /\ \E col \in DOMAIN now : insight[col] # now[col]

\* Database.insert_review of the catalogue's next review
InsightsInsertReview(rid) ==
    /\ rid = Len(reviews) + 1
    /\ reviews' = insert_review(reviews, CatalogReview(rid))
    /\ lastOp' = [op |-> "insert_review", computes |-> {}]
    /\ UNCHANGED <<enrichments, runVars, histVars, embeddings, tx, lastCommit, result,
                   insights_cache, computed>>

\* Database.insert_enrichment for a stored review
InsightsInsertEnrichment(rid) ==
    /\ rid <= Len(reviews)
    /\ enrichments' = insert_enrichment(enrichments, Annotation(rid, (rid % 2) + 1))
    /\ enrichments' # enrichments
    /\ lastOp' = [op |-> "insert_enrichment", computes |-> {}]
    /\ UNCHANGED <<reviews, runVars, histVars, embeddings, tx, lastCommit, result,
                   insights_cache, computed>>

\* InsightGenerator compute for a key
ComputeOp(location_id, window, narrative) ==
    LET out == compute(reviews, enrichments, insights_cache, location_id, window,
                       narrative)
        key == <<location_id, window>>
    IN /\ insights_cache' = out.cache
       /\ result' = out.insight
       /\ computed' = [computed EXCEPT ![key] = out.insight]
       /\ lastOp' = [op |-> "compute", key |-> key, computes |-> {key},
                     prev_stale |-> Stale(computed[key], location_id, window),
                     differs |-> out.insight # computed[key],
                     after_stale_get |-> (/\ lastOp.op = "get"
                                          /\ lastOp.key = key
                                          /\ lastOp.stale)]
       /\ UNCHANGED <<reviews, enrichments, runVars, histVars, embeddings, tx,
                      lastCommit>>

\* InsightGenerator get for a key
GetOp(location_id, window) ==
    LET insight == get(insights_cache, location_id, window)
    IN /\ result' = insight
       /\ lastOp' = [op |-> "get", key |-> <<location_id, window>>, computes |-> {},
                     stale |-> Stale(insight, location_id, window)]
       /\ UNCHANGED <<reviews, enrichments, runVars, histVars, embeddings, tx,
                      lastCommit, insights_cache, computed>>

\* an endpoint that serves the cached entry even when regenerate is set
get_insights_cached_first(rows, enr, cache, location_id, regenerate, narrative) ==
    LET key == <<location_id, DefaultWindow>>
        cached == get(cache, location_id, DefaultWindow)
        out == compute(rows, enr, cache, location_id, DefaultWindow, narrative)
    IN IF cached = None
       THEN [cache |-> out.cache, insight |-> out.insight, computes |-> {key},
             generate_calls |-> 1]
       ELSE [cache |-> cache, insight |-> cached, computes |-> {}, generate_calls |-> 0]

\* an endpoint that drops the cached entry once it has served it
get_insights_evicting(rows, enr, cache, location_id, regenerate, narrative) ==
    LET key == <<location_id, DefaultWindow>>
        cached == get(cache, location_id, DefaultWindow)
        out == compute(rows, enr, cache, location_id, DefaultWindow, narrative)
    IN IF regenerate \/ cached = None
       THEN [cache |-> out.cache, insight |-> out.insight, computes |-> {key},
             generate_calls |-> 1]
       ELSE [cache |-> cache \ {cached}, insight |-> cached, computes |-> {},
             generate_calls |-> 0]

\* an endpoint that generates whatever is cached
get_insights_generating(rows, enr, cache, location_id, regenerate, narrative) ==
    LET key == <<location_id, DefaultWindow>>
        out == compute(rows, enr, cache, location_id, DefaultWindow, narrative)
    IN [cache |-> out.cache, insight |-> out.insight, computes |-> {key},
        generate_calls |-> 1]

\* get_insights(location_id, regenerate): generate_insights when regenerate
\* is set or nothing is cached, the cached insights otherwise
get_insights(rows, enr, cache, location_id, regenerate, narrative) ==
    LET key == <<location_id, DefaultWindow>>
        cached == get(cache, location_id, DefaultWindow)
        out == compute(rows, enr, cache, location_id, DefaultWindow, narrative)
    IN IF regenerate \/ cached = None
       THEN [cache |-> out.cache, insight |-> out.insight, computes |-> {key},
             generate_calls |-> 1]
       ELSE [cache |-> cache, insight |-> cached, computes |-> {}, generate_calls |-> 0]

\* GET /api/insights/{location_id}?regenerate=...
GetInsightsOp(location_id, regenerate, narrative) ==
    LET key == <<location_id, DefaultWindow>>
        out == get_insights(reviews, enrichments, insights_cache, location_id,
                            regenerate, narrative)
    IN /\ result' = out.insight
       /\ insights_cache' = out.cache
       /\ computed' = IF out.computes # {} THEN [computed EXCEPT ![key] = out.insight]
                      ELSE computed
       /\ lastOp' = [op |-> "get_insights", key |-> key, regenerate |-> regenerate,
                     computes |-> out.computes,
                     cached |-> get(insights_cache, location_id, DefaultWindow),
                     generate_calls |-> out.generate_calls]
       /\ UNCHANGED <<reviews, enrichments, runVars, histVars, embeddings, tx,
                      lastCommit>>

NextInsights ==
    \/ \E rid \in ReviewIds : InsightsInsertReview(rid)
    \/ \E rid \in ReviewIds : InsightsInsertEnrichment(rid)
    \/ \E location_id \in Locations, window \in Windows, narrative \in Narratives :
          ComputeOp(location_id, window, narrative)
    \/ \E location_id \in Locations, window \in Windows : GetOp(location_id, window)
    \/ \E location_id \in Locations, regenerate \in BOOLEAN, narrative \in Narratives :
          GetInsightsOp(location_id, regenerate, narrative)

SpecInsights == Init /\ [][NextInsights]_vars

\* whether a returned insight is the aggregate of the data now stored
Fresh(insight, key) ==
    LET now == Aggregate(reviews, enrichments, key[1], key[2])
    IN insight # None /\ \A col \in DOMAIN now : insight[col] = now[col]

CacheConsistent ==
    /\ \A key \in CacheKeys :
          LET hit == CachedRows(insights_cache, key[1], key[2])
          IN /\ Cardinality(hit) <= 1
             /\ hit = {} <=> computed[key] = None
             /\ hit # {} => hit = {computed[key]}
    /\ lastOp.op = "get" =>
          result = IF computed[lastOp.key] = None THEN None
                   ELSE computed[lastOp.key]

Counts == {0, 1, 3, 3000}

\* the anchors: 2026-01-10 and 2027-01-10 as day numbers
Anchors == {739626, 739991}

\* "N unit(s) ago", with or without the plural s and the spaces
NumberedText(n, unit, plural, spaced) ==
    <<Num(n)>> \o (IF spaced THEN <<Ws>> ELSE <<>>) \o <<Unit(unit)>>
      \o (IF plural THEN <<Tok("s")>> ELSE <<>>)
      \o (IF spaced THEN <<Ws>> ELSE <<>>) \o <<Tok("ago")>>

NumberedTexts ==
    {NumberedText(n, unit, plural, spaced) :
        n \in Counts, unit \in Units, plural \in BOOLEAN, spaced \in BOOLEAN}

\* "a unit ago"
SingularTexts == {<<Tok("a"), Ws, Unit(unit), Ws, Tok("ago")>> : unit \in Units}

\* texts of none of the forms: "", " ", "sometime", "sometime ago",
\* "3 hours ago", "aday ago", "a days ago", "3 days", "week ago"
OtherTexts ==
    {<<>>, <<Ws>>, <<Tok("other")>>, <<Tok("other"), Ws, Tok("ago")>>,
     <<Num(3), Ws, Tok("other"), Ws, Tok("ago")>>,
     <<Tok("a"), Unit("day"), Ws, Tok("ago")>>,
     <<Tok("a"), Ws, Unit("day"), Tok("s"), Ws, Tok("ago")>>,
     <<Num(3), Ws, Unit("day"), Tok("s")>>,
     <<Unit("week"), Ws, Tok("ago")>>}

Upper(text) == [n \in 1..Len(text) |-> [text[n] EXCEPT !.caps = TRUE]]

\* surrounding whitespace and upper case, as scraped
Decorated(text) == {text, <<Ws>> \o text \o <<Ws>>, Upper(text)}

RelativeDates ==
    UNION {Decorated(text) :
             text \in {<<Tok("today")>>, <<Tok("yesterday")>>}
                        \cup NumberedTexts \cup SingularTexts \cup OtherTexts}

\* str.strip() of the lower-cased text
RECURSIVE Strip(_)
Strip(text) ==
    IF text # <<>> /\ text[1].t = "ws" THEN Strip(Tail(text))
    ELSE IF text # <<>> /\ text[Len(text)].t = "ws"
         THEN Strip(SubSeq(text, 1, Len(text) - 1))
    ELSE text

\* the days the reference resolution subtracts for a text
ReferenceDays(relative_date) ==
    LET text == Strip(Lower(relative_date))
    IN IF text = <<Tok("today")>> THEN 0
       ELSE IF text = <<Tok("yesterday")>> THEN 1
       ELSE IF \E n \in Counts, unit \in Units, plural, spaced \in BOOLEAN :
                  text = NumberedText(n, unit, plural, spaced)
            THEN LET n == text[1].n
                     unit == (CHOOSE m \in 1..Len(text) : text[m].t = "unit")
                 IN n * (CASE text[unit].u = "day" -> 1
                           [] text[unit].u = "week" -> 7
                           [] text[unit].u = "month" -> 30
                           [] text[unit].u = "year" -> 365)
       ELSE IF text \in SingularTexts
            THEN (CASE text[3].u = "day" -> 1
                    [] text[3].u = "week" -> 7
                    [] text[3].u = "month" -> 30
                    [] text[3].u = "year" -> 365)
       ELSE 0

\* a relative_date text and an anchor are given; nothing is parsed yet
InitDates ==
    /\ InitStore
    /\ InitRun
    /\ InitAux
    /\ lastOp \in {[op |-> "text", relative_date |-> text, scrape_date |-> anchor] :
                     text \in RelativeDates, anchor \in Anchors}

\* parse_relative_date(relative_date, scrape_date)
ParseRelativeDateOp ==
    /\ lastOp.op = "text"
    /\ lastOp' = [lastOp EXCEPT
                    !.op = IF parse_relative_date_raises(lastOp.relative_date,
                                                         lastOp.scrape_date)
                           THEN "raised" ELSE "parsed"]
    /\ result' = IF parse_relative_date_raises(lastOp.relative_date, lastOp.scrape_date)
                 THEN None
                 ELSE [review_date |-> parse_relative_date(lastOp.relative_date,
                                                           lastOp.scrape_date)]
    /\ UNCHANGED <<reviews, enrichments, runVars, histVars, embeddings, tx, lastCommit,
                   insights_cache, computed>>

NextDates == ParseRelativeDateOp

SpecDates == InitDates /\ [][NextDates]_vars

\* C21: parse_relative_date is total and matches the reference: "today" is
\* the anchor, "yesterday" one day before it, "N units ago" and "a unit ago"
\* N (or 1) times 1 / 7 / 30 / 365 days before it, any other text the anchor
\* itself, never an error; the result is never later than the anchor.
C21_RelativeDateReference ==
    /\ lastOp.op # "raised"
    /\ lastOp.op = "parsed" =>
          /\ result.review_date = lastOp.scrape_date - ReferenceDays(lastOp.relative_date)
          /\ result.review_date <= lastOp.scrape_date

\* =========================================================== social threads
\* the comment texts of the payloads
Comments ==
    {"worst, avoid it", "Best rental so far!", "Good car, fair price",
     "Worst desk ever, avoid it. Best price though.",
     "Bad pickup line but good, helpful staff.",
     "Best deal and a good car overall.", "We rented a compact for a week.",
     "Rude agent at the counter, beware.", "Happy with the smooth pickup."}

\* the post titles of the payloads
Titles ==
    {"Avis question", "Avoid this scam"}

\* len(text)
StrLen(text) ==
    CASE text = "worst, avoid it" -> 15
      [] text = "Best rental so far!" -> 19
      [] text = "Good car, fair price" -> 20
      [] text = "Worst desk ever, avoid it. Best price though." -> 45
      [] text = "Bad pickup line but good, helpful staff." -> 40
      [] text = "Best deal and a good car overall." -> 33
      [] text = "We rented a compact for a week." -> 31
      [] text = "Rude agent at the counter, beware." -> 34
      [] text = "Happy with the smooth pickup." -> 29
      [] text = "Avis question" -> 13
      [] text = "Avoid this scam" -> 15

\* the keywords of the parser's lists that text.lower() contains
Mentions(text) ==
    CASE text = "worst, avoid it" -> {"avoid", "worst"}
      [] text = "Best rental so far!" -> {"best"}
      [] text = "Good car, fair price" -> {"good"}
      [] text = "Worst desk ever, avoid it. Best price though." -> {"avoid", "best", "worst"}
      [] text = "Bad pickup line but good, helpful staff." -> {"bad", "good", "helpful"}
      [] text = "Best deal and a good car overall." -> {"best", "deal", "good"}
      [] text = "We rented a compact for a week." -> {}
      [] text = "Rude agent at the counter, beware." -> {"beware", "rude"}
      [] text = "Happy with the smooth pickup." -> {"happy", "smooth"}
      [] text = "Avis question" -> {}
      [] text = "Avoid this scam" -> {"avoid", "scam"}

\* negative_keywords and positive_keywords of _extract_sentiment_hints
NegativeKeywords ==
    {"bad", "worst", "terrible", "awful", "scam", "avoid", "never", "horrible",
     "rude", "hidden fees", "overcharge", "complaint", "warning", "beware",
     "don't", "do not", "annoyed", "frustrated"}

PositiveKeywords ==
    {"great", "excellent", "best", "recommend", "good", "helpful", "smooth",
     "easy", "bargain", "deal", "satisfied", "happy"}

\* the keyword tiers of _estimate_rating
StronglyNegative ==
    {"scam", "worst", "terrible", "never again", "avoid"}
ModeratelyNegative ==
    {"bad", "annoyed", "frustrated", "hidden fees", "overcharge"}
StronglyPositive ==
    {"excellent", "best", "highly recommend", "great deal"}
ModeratelyPositive ==
    {"good", "decent", "satisfied", "helpful"}

\* hashlib.md5(title.encode()).hexdigest()[:12]: the digests b3d16560cb06, 8a4205832d12
\* are numbered
Md5Prefix(title) ==
    CASE title = "Avis question" -> 1
      [] title = "Avoid this scam" -> 2

\* the shortest comment a review is made of
MinCommentLen == 20

\* f"reddit_{post_id}_{i}": the pair (post_id, i) as one number, i < 10
ReviewId(post_id, index) == post_id * 10 + index

\* ratings are in tenths: 1.0 is 10, 2.5 is 25
\* _extract_sentiment_hints(title, comments)
extract_sentiment_hints(title, comments) ==
    LET InAllText(kw) ==
            \/ kw \in Mentions(title)
            \/ \E n \in 1..Len(comments) : kw \in Mentions(comments[n])
        neg_count == Cardinality({kw \in NegativeKeywords : InAllText(kw)})
        pos_count == Cardinality({kw \in PositiveKeywords : InAllText(kw)})
    IN [negative_signals |-> neg_count,
        positive_signals |-> pos_count,
        overall |-> IF neg_count > pos_count THEN "negative"
                    ELSE IF pos_count > neg_count THEN "positive"
                    ELSE "neutral"]

\* an estimate that looks for the positive tiers first
estimate_rating_positive_first(comment, sentiment_hints) ==
    IF Mentions(comment) \cap StronglyPositive # {} THEN 50
    ELSE IF Mentions(comment) \cap ModeratelyPositive # {} THEN 40
    ELSE IF Mentions(comment) \cap StronglyNegative # {} THEN 10
    ELSE IF Mentions(comment) \cap ModeratelyNegative # {} THEN 20
    ELSE IF sentiment_hints.overall = "negative" THEN 25
    ELSE IF sentiment_hints.overall = "positive" THEN 35
    ELSE 30

\* _estimate_rating(comment, sentiment_hints)
estimate_rating(comment, sentiment_hints) ==
    IF Mentions(comment) \cap StronglyNegative # {} THEN 10
    ELSE IF Mentions(comment) \cap ModeratelyNegative # {} THEN 20
    ELSE IF Mentions(comment) \cap StronglyPositive # {} THEN 50
    ELSE IF Mentions(comment) \cap ModeratelyPositive # {} THEN 40
    ELSE IF sentiment_hints.overall = "negative" THEN 25
    ELSE IF sentiment_hints.overall = "positive" THEN 35
    ELSE 30

\* the review _parse_post makes of comment n (enumerate counts from 0); post
\* is history: the post the review was made of
PostReview(post, subreddit, scrape_date, n, review_id) ==
    [location_id |-> "ALL",
     review_id   |-> review_id,
     rating      |-> estimate_rating(post.comments[n],
                        extract_sentiment_hints(post.title, post.comments)),
     review_text |-> post.comments[n],
     review_date |-> scrape_date,
     raw_json    |-> [post_title |-> post.title, subreddit |-> subreddit,
                      comment_index |-> n - 1],
     post        |-> post]

\* a _parse_post that skips the comments of exactly the threshold length too
parse_post_strict(post, subreddit, scrape_date) ==
    LET Kept(n) == StrLen(post.comments[n]) > MinCommentLen
        kept == SelectSeq([n \in 1..Len(post.comments) |-> n], Kept)
    IN [m \in 1..Len(kept) |->
          PostReview(post, subreddit, scrape_date, kept[m],
                     ReviewId(Md5Prefix(post.title), kept[m] - 1))]

\* a _parse_post that numbers the comments it keeps and puts the scrape date
\* in the id
parse_post_renumbering(post, subreddit, scrape_date) ==
    LET Kept(n) == StrLen(post.comments[n]) >= MinCommentLen
        kept == SelectSeq([n \in 1..Len(post.comments) |-> n], Kept)
    IN [m \in 1..Len(kept) |->
          PostReview(post, subreddit, scrape_date, kept[m],
                     ReviewId(Md5Prefix(post.title) + scrape_date, m - 1))]

\* _parse_post(post, subreddit, brand, scrape_date)
parse_post(post, subreddit, scrape_date) ==
    LET Kept(n) == StrLen(post.comments[n]) >= MinCommentLen
        kept == SelectSeq([n \in 1..Len(post.comments) |-> n], Kept)
    IN [m \in 1..Len(kept) |->
          PostReview(post, subreddit, scrape_date, kept[m],
                     ReviewId(Md5Prefix(post.title), kept[m] - 1))]

RECURSIVE ParsePosts(_, _, _)
\* the loop over the posts of one subreddit (lines 63-65, 70-72)
ParsePosts(posts, subreddit, scrape_date) ==
    IF posts = <<>> THEN <<>>
    ELSE parse_post(posts[1], subreddit, scrape_date)
           \o ParsePosts(Tail(posts), subreddit, scrape_date)

RECURSIVE ParseSubreddits(_, _)
\* the loop over data["subreddits"] (lines 60-65)
ParseSubreddits(subs, scrape_date) ==
    IF subs = <<>> THEN <<>>
    ELSE ParsePosts(Get(subs[1], "posts", <<>>), Get(subs[1], "subreddit", "unknown"),
                    scrape_date)
           \o ParseSubreddits(Tail(subs), scrape_date)

\* parse_reddit_data(data, brand, scrape_date)
parse_reddit_data(data, scrape_date) ==
    IF "subreddits" \in DOMAIN data
    THEN ParseSubreddits(data.subreddits, scrape_date)
    ELSE ParsePosts(Get(data, "posts", <<>>), Get(data, "subreddit", "unknown"),
                    scrape_date)

\* the scrape date of ingest_reddit_file: data["scrape_date"], else now
RedditScrapeDate(data, now) ==
    IF Get(data, "scrape_date", Null) # Null THEN data.scrape_date ELSE now

\* ingest_reddit_file: insert_review for each parsed review
ingest_reddit_file(rows, data, now) ==
    InsertAll(rows, parse_reddit_data(data, RedditScrapeDate(data, now)))

\* the comment lists of a post: up to two comments
CommentLists == {<<>>} \cup {<<c>> : c \in Comments}
                  \cup {<<c, d>> : c, d \in Comments}

Posts == {[title |-> title, comments |-> comments] :
            title \in Titles, comments \in CommentLists}

\* the posts a payload holds after its first one: one comment each
SecondPosts ==
    {[title |-> title, comments |-> <<c>>] :
        title \in Titles, c \in {"Good car, fair price", "Best rental so far!"}}

\* the post lists of a payload without its scrape date: one subreddit with
\* up to two posts, or the multi-subreddit shape with a post in each of two
PayloadBodies ==
    {[subreddit |-> "travel", posts |-> <<>>], [brand |-> "avis", subreddits |-> <<>>]}
    \cup {[subreddit |-> "travel", posts |-> <<p>>] : p \in Posts}
    \cup {[subreddit |-> "travel", posts |-> <<p, q>>] : p \in Posts, q \in SecondPosts}
    \cup {[brand |-> "avis",
           subreddits |-> <<[subreddit |-> "travel", posts |-> <<p>>],
                            [subreddit |-> "cars", posts |-> <<q>>]>>] :
            p \in Posts, q \in SecondPosts}

Payloads ==
    PayloadBodies \cup {body @@ [scrape_date |-> 20] : body \in PayloadBodies}

\* a payload was scraped; the store is empty
InitReddit ==
    /\ InitStore
    /\ InitRun
    /\ InitAux
    /\ lastOp \in {[op |-> "payload", data |-> data] : data \in Payloads}

\* ingest_reddit_file(file_path, db) on the payload
IngestRedditFileOp(now) ==
    /\ lastOp.op \in {"payload", "ingest_reddit_file"}
    /\ reviews' = ingest_reddit_file(reviews, lastOp.data, now)
    /\ lastOp' = [op |-> "ingest_reddit_file", data |-> lastOp.data,
                  parsed |-> parse_reddit_data(lastOp.data,
                                               RedditScrapeDate(lastOp.data, now)),
                  now |-> now,
                  again |-> (lastOp.op = "ingest_reddit_file"),
                  other_day |-> (lastOp.op = "ingest_reddit_file" /\ lastOp.now # now)]
    /\ UNCHANGED <<enrichments, runVars, histVars, embeddings, tx, lastCommit, result,
                   insights_cache, computed>>

NextReddit == \E now \in Nows : IngestRedditFileOp(now)

SpecReddit == InitReddit /\ [][NextReddit]_vars

Ingested == lastOp.op = "ingest_reddit_file"

ParsedIds(parsed) == [n \in 1..Len(parsed) |-> parsed[n].review_id]

\* C22: re-ingesting a social-thread payload is idempotent: each review_id is
\* made of the post title's hash and the comment's position in the post's
\* original comment list only, a second parse of the payload yields the same
\* sequence of review_ids whatever the scrape date, and inserting it adds no
\* review.
C22_RedditReingestion ==
    /\ [](Ingested =>
            \A n \in 1..Len(lastOp.parsed) :
               LET review == lastOp.parsed[n]
               IN review.review_id =
                    Md5Prefix(review.raw_json.post_title) * 10
                      + review.raw_json.comment_index)
    /\ [][(Ingested /\ Ingested') =>
            /\ ParsedIds(lastOp'.parsed) = ParsedIds(lastOp.parsed)
            /\ reviews' = reviews]_vars

\* a payload was ingested again on another day; one of its reviews is of a
\* comment that follows a discarded shorter one
C22_Witness ==
    /\ Ingested
    /\ lastOp.other_day
    /\ "scrape_date" \notin DOMAIN lastOp.data
    /\ \E n \in 1..Len(reviews) :
          /\ reviews[n].review_id % 10 = 1
          /\ \E m \in 1..Len(lastOp.parsed) :
                /\ lastOp.parsed[m].review_id = reviews[n].review_id
                /\ StrLen(lastOp.parsed[m].post.comments[1]) < MinCommentLen

\* the keywords of a list that the title or a comment of the post contains
PostMentions(post, keywords) ==
    (Mentions(post.title)
       \cup UNION {Mentions(post.comments[n]) : n \in 1..Len(post.comments)})
      \cap keywords

\* C23: the rating of a synthesized review is that of the first keyword tier
\* its comment matches, in the order strongly negative (1.0), moderately
\* negative (2.0), strongly positive (5.0), moderately positive (4.0); with no
\* tier matched it is 2.5 / 3.5 / 3.0 for a post whose title and comments
\* hold more negative / more positive / as many negative as positive
\* keywords; it is always one of 1.0, 2.0, 2.5, 3.0, 3.5, 4.0, 5.0.
C23_RatingTiers ==
    Ingested =>
      \A n \in 1..Len(lastOp.parsed) :
         LET review == lastOp.parsed[n]
             said == Mentions(review.review_text)
             neg == Cardinality(PostMentions(review.post, NegativeKeywords))
             pos == Cardinality(PostMentions(review.post, PositiveKeywords))
         IN /\ review.rating \in {10, 20, 25, 30, 35, 40, 50}
            /\ review.rating = 10 <=> said \cap StronglyNegative # {}
            /\ review.rating = 20 <=>
                  /\ said \cap StronglyNegative = {}
                  /\ said \cap ModeratelyNegative # {}
            /\ review.rating = 50 <=>
                  /\ said \cap (StronglyNegative \cup ModeratelyNegative) = {}
                  /\ said \cap StronglyPositive # {}
            /\ review.rating = 40 <=>
                  /\ said \cap (StronglyNegative \cup ModeratelyNegative
                                  \cup StronglyPositive) = {}
                  /\ said \cap ModeratelyPositive # {}
            /\ review.rating = 25 => neg > pos
            /\ review.rating = 35 => pos > neg
            /\ review.rating = 30 => pos = neg

\* a comment with strongly negative and positive keywords was rated 1.0 and
\* one without a tier keyword 2.5, in a post of negative aggregate
C23_Witness ==
    /\ Ingested
    /\ \E m, n \in 1..Len(lastOp.parsed) :
          /\ lastOp.parsed[m].rating = 10
          /\ Mentions(lastOp.parsed[m].review_text) \cap StronglyPositive # {}
          /\ lastOp.parsed[n].rating = 25
          /\ lastOp.parsed[n].post = lastOp.parsed[m].post

RECURSIVE AllComments(_)
\* the comments of a list of posts, in order
AllComments(posts) ==
    IF posts = <<>> THEN <<>> ELSE posts[1].comments \o AllComments(Tail(posts))

RECURSIVE AllPosts(_)
\* the posts of a list of subreddits, in order
AllPosts(subs) ==
    IF subs = <<>> THEN <<>> ELSE subs[1].posts \o AllPosts(Tail(subs))

\* the comments of a payload of either shape
PayloadComments(data) ==
    IF "subreddits" \in DOMAIN data THEN AllComments(AllPosts(data.subreddits))
    ELSE AllComments(data.posts)

Substantive(comment) == StrLen(comment) >= 20

\* C24: parse_reddit_data makes exactly one review of every comment of at
\* least 20 characters and none of a shorter one, over all posts of all
\* subreddits of the payload in either shape; every review has location_id
\* 'ALL'.
C24_OneReviewPerComment ==
    Ingested =>
      /\ [n \in 1..Len(lastOp.parsed) |-> lastOp.parsed[n].review_text]
           = SelectSeq(PayloadComments(lastOp.data), Substantive)
      /\ \A n \in 1..Len(lastOp.parsed) : lastOp.parsed[n].location_id = "ALL"

\* a multi-subreddit payload with a comment of 19 characters, one of 20 and
\* a longer one was parsed
C24_Witness ==
    /\ Ingested
    /\ "subreddits" \in DOMAIN lastOp.data
    /\ Len(lastOp.parsed) = 2
    /\ \E n \in 1..Len(PayloadComments(lastOp.data)) :
          StrLen(PayloadComments(lastOp.data)[n]) = 19
    /\ \E n \in 1..Len(lastOp.parsed) : StrLen(lastOp.parsed[n].review_text) = 20
    /\ \E n \in 1..Len(lastOp.parsed) : StrLen(lastOp.parsed[n].review_text) > 20

\* C28: within one payload no two (post, comment position) pairs get the
\* same review_id, two posts of the same title included, so the store drops
\* no synthesized review as a duplicate.
C28_UniqueReviewIds ==
    Ingested =>
      /\ \A m, n \in 1..Len(lastOp.parsed) :
            lastOp.parsed[m].review_id = lastOp.parsed[n].review_id => m = n
      /\ Len(reviews) = Len(lastOp.parsed)

\* C25: the read-through policy of get_insights: with regenerate set it
\* calls generate_insights (once) and returns its result; without it and with
\* an entry cached it returns the cached entry and generates nothing; without
\* it and with nothing cached it calls generate_insights once and returns
\* that result.
C25_ReadThrough ==
    lastOp.op = "get_insights" =>
       /\ lastOp.regenerate =>
             /\ lastOp.generate_calls = 1
             /\ result = computed[lastOp.key]
             /\ Fresh(result, lastOp.key)
       /\ (~lastOp.regenerate /\ lastOp.cached # None) =>
             /\ lastOp.generate_calls = 0
             /\ lastOp.computes = {}
             /\ result = lastOp.cached
       /\ (~lastOp.regenerate /\ lastOp.cached = None) =>
             /\ lastOp.generate_calls = 1
             /\ result = computed[lastOp.key]
             /\ Fresh(result, lastOp.key)

\* the endpoint served a cached entry that the stored data have moved away
\* from, and generated nothing
C25_Witness ==
    /\ lastOp.op = "get_insights"
    /\ ~lastOp.regenerate
    /\ lastOp.cached # None
    /\ Stale(result, lastOp.key[1], lastOp.key[2])
    /\ lastOp.generate_calls = 0

\* ====================================================== enrichment batches
RECURSIVE BatchesUpTo(_)
\* the first b batches of the current run, one after the other
BatchesUpTo(b) == IF b = 0 THEN <<>> ELSE BatchesUpTo(b - 1) \o BatchOf(b)

\* C26: the candidate list of a run is cut into consecutive batches: every
\* candidate is in exactly one batch, every batch but the last holds
\* batch_size reviews, the last holds between 1 and batch_size, none is empty;
\* these are the batches the run sends.
C26_BatchPartition ==
    /\ BatchesUpTo(NBatches) = cands
    /\ \A b \in 1..NBatches :
          /\ Len(BatchOf(b)) >= 1
          /\ Len(BatchOf(b)) <= batch_size
          /\ b < NBatches => Len(BatchOf(b)) = batch_size
    /\ Running => i % batch_size = 0
    /\ pc = "persist" => Slice(cands, i, batch_size) = BatchOf(calls)
    /\ pc = "done" => sent = BatchIds(cands)

\* a returned run cut 3 candidates into a batch of 2 and a last batch of 1
C26_Witness ==
    /\ pc = "done"
    /\ Len(cands) = 3
    /\ batch_size = 2
    /\ Len(BatchOf(1)) = 2
    /\ Len(BatchOf(2)) = 1
    /\ sent = BatchIds(cands)

\* C27: the progress count of a run is a running count over its candidates:
\* at every point, and when the run returns, count is the number of candidate
\* reviews whose enrichment the run has persisted, so it never exceeds the
\* number of candidates.
C27_ProgressCount ==
    /\ count = Cardinality(WrittenIds \cap BatchIds(cands))
    /\ count <= Len(cands)

\* C29: every stored enrichment belongs to a stored review: an enrichment
\* the annotation service returns for a review_id that is not in the store
\* (or not in the batch) is never persisted.
C29_ReferentialIntegrity ==
    \A e \in enrichments : Stored(reviews, e.review_id)

\* ======================================================= retried enrichment
\* the catalogue's first m reviews are stored and nothing is enriched; the
\* caller will invoke enrich_all_reviews(limit=...) again and again
InitRetry ==
    /\ \E m \in 0..MaxReviews : reviews = CatalogTable(m)
    /\ enrichments = {}
    /\ embeddings = {}
    /\ InitRun
    /\ InitAux
    /\ lastOp \in {[op |-> "retry", limit |-> limit] : limit \in {Null, MaxBatch}}

\* enrich_all_reviews(limit=...) invoked once more (lines 24-28); runs counts
\* the invocations up to MaxRuns
RetryRun(size) ==
    /\ Resting
    /\ runs' = Min(runs + 1, MaxRuns)
    /\ batch_size' = size
    /\ cands' = get_reviews(reviews, NullText, Null, Null,
                            IF lastOp.limit # Null THEN lastOp.limit ELSE DefaultLimit)
    /\ count' = 0
    /\ i' = 0
    /\ resp' = <<>>
    /\ k' = 0
    /\ pc' = "loop"
    /\ calls' = 0
    /\ outcome' = <<>>
    /\ kind' = <<>>
    /\ written' = {}
    /\ sent' = {}
    /\ hadEnrichment' = {r.review_id : r \in enrichments}
    /\ UNCHANGED storeVars
    /\ UNCHANGED auxVars

\* the annotation service fails in the earlier invocations only
RetryCallRaises == runs < MaxRuns /\ CallRaises

NextRetry ==
    \/ \E size \in {1, MaxBatch} : RetryRun(size)
    \/ RetryCallRaises
    \/ CallReturns("exact")
    \/ PersistOne
    \/ BatchDone
    \/ Return

SpecRetry == InitRetry /\ [][NextRetry]_vars /\ WF_vars(NextRetry)

AllEnriched ==
    \A n \in 1..Len(reviews) : \E e \in enrichments : e.review_id = reviews[n].review_id

\* C30: with an annotation service that eventually succeeds for every batch
\* and no review ingested meanwhile, invoking enrich_all_reviews again and
\* again eventually leaves every stored review enriched, also when the store
\* holds more reviews than the candidate limit of a run.
C30_EventualEnrichment == <>AllEnriched

====
